---- MODULE Spec2Model ----
(***************************************************************************)
(* Model of the Binance wallet integration core:                           *)
(*   - RateLimitManager   (binance_wallet_integration/rate_limiter.py)     *)
(*   - OrderManager       (binance_wallet_integration/order_manager.py)    *)
(*   - BinanceClient      (binance_wallet_integration/client.py), as far   *)
(*     as the order manager drives it                                      *)
(*   - SecurityManager    (binance_wallet_integration/security.py)         *)
(*   - WebSocketManager   (binance_wallet_integration/websocket_manager.py)*)
(* Time is a discrete clock `now` in seconds.                              *)
(***************************************************************************)
EXTENDS Integers, Sequences, FiniteSets, TLC

(***************************************************************************)
(* Bounds of the model.                                                    *)
(***************************************************************************)
MaxTime == 60
TickStep == 30
MaxAcquireCalls == 3
MaxAttempts == 3
MaxOrders == 2
MaxOrderTime == 172800
MaxFmtValue == 600
OrderTickStep == 86400
MaxWsTime == 300
WsTickStep == 150
MaxSubscribeCalls == 2
MaxReconnectLoops == 1

(***************************************************************************)
(* Program constants of the rate limiter.                                  *)
(***************************************************************************)
RequestWeightLimit == 1200
RequestWeightWindow == 60
RawRequestsLimit == 6000
RawRequestsWindow == 60
OrdersLimit == 50
OrdersWindow == 10
BackoffBaseDelay == 1
BackoffMaxDelay == 60
BackoffMultiplier == 2
AcquireMaxDelay == 5
AcquireDefaultTimeout == 30
TeapotBanDuration == 3600

(***************************************************************************)
(* Program constants of the order manager.  Quantities are counted in      *)
(* units of 10^-QDigits, prices in units of 10^-PDigits, and USD amounts   *)
(* (notional, limits, daily volume) in units of 10^-(QDigits+PDigits), so  *)
(* that quantity * price is exact.                                         *)
(***************************************************************************)
QDigits == 2
PDigits == 2
MaxPositionSizeUsd == 10000
MinOrderSizeUsd == 10
MaxDailyVolumeUsd == 50000
DailyWindowSeconds == 86400

VARIABLES
    now,              \* time.time()
    rate_limits,      \* RateLimitManager._rate_limits: type -> RateLimit
    is_banned,        \* RateLimitManager._is_banned
    ban_until,        \* RateLimitManager._ban_until
    attempts,         \* RateLimitManager._backoff_strategies[type].attempts
    pc,               \* position of each caller inside _request / acquire
    call,             \* arguments and start_time of each caller's acquire
    wake,             \* end of each caller's time.sleep(delay)
    denied_by,        \* why check_limits last refused each caller
    ncalls,           \* number of requests started
    window_granted,   \* history: weight granted in each bucket's current window
    header_override,  \* history: bucket usage overwritten from headers in this window
    environment,      \* ConfigManager.environment
    daily_volume_usd, \* OrderManager.risk_limits.daily_volume_usd
    daily_reset_time, \* OrderManager.risk_limits.daily_reset_time
    order_history,    \* OrderManager._order_history
    om,               \* the place_order call of each task: position, locals, result
    norders,          \* number of place_order calls started
    fmt,              \* one application of a formatting function: input and output
    http,             \* one response inside _request: status, headers, body, outcome
    sec,              \* one SecurityManager: constructor arguments, instance, signature
    sname,            \* one application of _format_stream_name: config and name
    adapter,          \* one execute_buy_order / execute_sell_order call
    ws_now,           \* time.time() of the WebSocket manager
    running,          \* WebSocketManager._running
    connections,      \* the WebSocketConnection objects and their tasks
    message_handlers, \* WebSocketManager._message_handlers
    active_streams,   \* keys of WebSocketManager._active_streams
    connection_attempts, \* WebSocketManager._connection_attempts: time -> count
    dispatch,         \* the last _handle_message: handlers awaited, exception
    created,          \* how the last _create_connection ended
    nsubscribes,      \* number of subscribe_to_stream calls
    nreconnects       \* number of _reconnect_loop calls

rlvars == <<now, rate_limits, is_banned, ban_until, attempts, pc, call, wake,
            denied_by, ncalls, window_granted, header_override>>

omvars == <<environment, daily_volume_usd, daily_reset_time, order_history, om,
            norders>>

purevars == <<fmt, http>>

auxvars == <<sec, sname, adapter>>

wsvars == <<ws_now, running, connections, message_handlers, active_streams,
            connection_attempts, dispatch, created, nsubscribes, nreconnects>>

vars == <<rlvars, omvars, purevars, auxvars, wsvars>>

RateLimitType == {"request_weight", "raw_requests", "orders"}

Callers == {"t1", "t2"}

\* What the callers ask for: weights that fill each bucket in two requests.
Requests == {<<600, "request_weight">>, <<25, "orders">>, <<3000, "raw_requests">>}

NoHeader == -1

\* The responses the exchange can give: a status and the rate-limit headers
\* x-mbx-used-weight-1m, x-mbx-order-count-10s, retry-after (counters within
\* and above the limits, a retry-after duration, or no such header).
Responses ==
    { [status |-> 200, used_weight |-> NoHeader, order_count |-> NoHeader, retry_after |-> NoHeader],
      [status |-> 200, used_weight |-> 50, order_count |-> NoHeader, retry_after |-> NoHeader],
      [status |-> 200, used_weight |-> 1300, order_count |-> 50, retry_after |-> NoHeader],
      [status |-> 429, used_weight |-> NoHeader, order_count |-> NoHeader, retry_after |-> 20],
      [status |-> 418, used_weight |-> NoHeader, order_count |-> NoHeader, retry_after |-> 20] }

Min(a, b) == IF a < b THEN a ELSE b

RECURSIVE Pow(_, _)
Pow(b, e) == IF e = 0 THEN 1 ELSE b * Pow(b, e - 1)

(***************************************************************************)
(* RateLimitManager.__init__: the three buckets.                           *)
(***************************************************************************)
Limit(t) ==
    CASE t = "request_weight" -> RequestWeightLimit
      [] t = "raw_requests" -> RawRequestsLimit
      [] t = "orders" -> OrdersLimit

WindowSeconds(t) ==
    CASE t = "request_weight" -> RequestWeightWindow
      [] t = "raw_requests" -> RawRequestsWindow
      [] t = "orders" -> OrdersWindow

NewRateLimit == [current_usage |-> 0, reset_time |-> 0]

\* RateLimit.add_usage: the window is reset only here, when a grant is booked.
WindowExpired(rl) == now >= rl.reset_time

add_usage(rl, t, amount) ==
    IF WindowExpired(rl)
    THEN [current_usage |-> amount, reset_time |-> now + WindowSeconds(t)]
    ELSE [rl EXCEPT !.current_usage = @ + amount]

\* BackoffStrategy.get_delay
get_delay(n) == Min(BackoffBaseDelay * Pow(BackoffMultiplier, n), BackoffMaxDelay)

(***************************************************************************)
(* RateLimitManager.check_limits                                           *)
(***************************************************************************)
BanActive == is_banned /\ now < ban_until

BanBlocks_mut_ignored == FALSE
BanBlocks == BanActive

OverLimit_mut_noweight(weight, t) == rate_limits[t].current_usage > Limit(t)
OverLimit(weight, t) == rate_limits[t].current_usage + weight > Limit(t)

check_limits(weight, t) == ~BanBlocks /\ ~OverLimit(weight, t)

\* the ban flag after check_limits: cleared once the ban period has ended
check_limits_is_banned == IF is_banned /\ now >= ban_until THEN FALSE ELSE is_banned

\* The callers are interchangeable threads: a new request is taken by the
\* first idle one.
FirstIdle == IF pc["t1"] = "idle" THEN "t1" ELSE "t2"

NoCall == [weight |-> 0, type |-> "request_weight", timeout |-> 0, start_time |-> 0]

(***************************************************************************)
(* BinanceClient._request as far as it drives the rate limiter, and        *)
(* RateLimitManager.acquire inside it, one caller (thread) p:              *)
(*   idle -> acquire -> granted (request sent) -> idle (response handled)  *)
(*              |  ^                                                       *)
(*              v  |                                                       *)
(*             sleep       acquire -> denied -> idle (error raised)        *)
(***************************************************************************)
RequestStart(p, weight, t, timeout) ==
    /\ pc[p] = "idle"
    /\ p = FirstIdle
    /\ ncalls < MaxAcquireCalls
    /\ ncalls' = ncalls + 1
    /\ call' = [call EXCEPT ![p] = [weight |-> weight, type |-> t,
                                    timeout |-> timeout, start_time |-> now]]
    /\ pc' = [pc EXCEPT ![p] = "acquire"]
    /\ UNCHANGED <<now, rate_limits, is_banned, ban_until, attempts, wake,
                   denied_by, window_granted, header_override>>

\* acquire: the loop test failed, the timeout has elapsed
AcquireTimeout_mut_never(p) ==
    /\ FALSE
    /\ UNCHANGED <<now, rate_limits, is_banned, ban_until, attempts, pc, call, wake,
                   denied_by, ncalls, window_granted, header_override>>

AcquireTimeout(p) ==
    /\ pc[p] = "acquire"
    /\ ~(now - call[p].start_time < call[p].timeout)
    /\ pc' = [pc EXCEPT ![p] = "denied"]
    /\ UNCHANGED <<now, rate_limits, is_banned, ban_until, attempts, call, wake,
                   denied_by, ncalls, window_granted, header_override>>

\* acquire: one turn of the loop; with self._lock: check_limits, then
\* add_usage, or outside the lock the backoff delay and time.sleep
AcquireLoop(p) ==
    /\ pc[p] = "acquire"
    /\ now - call[p].start_time < call[p].timeout
    /\ LET w == call[p].weight
           t == call[p].type
       IN  /\ is_banned' = IF BanBlocks THEN is_banned ELSE check_limits_is_banned
           /\ IF check_limits(w, t)
              THEN /\ rate_limits' = [rate_limits EXCEPT ![t] = add_usage(@, t, w)]
                   /\ window_granted' =
                        [window_granted EXCEPT
                           ![t] = IF WindowExpired(rate_limits[t]) THEN w ELSE @ + w]
                   /\ header_override' =
                        [header_override EXCEPT
                           ![t] = IF WindowExpired(rate_limits[t]) THEN FALSE ELSE @]
                   /\ pc' = [pc EXCEPT ![p] = "granted"]
                   /\ denied_by' = [denied_by EXCEPT ![p] = "none"]
                   /\ UNCHANGED <<attempts, wake>>
              ELSE /\ wake' = [wake EXCEPT
                                 ![p] = now + Min(get_delay(attempts[t]), AcquireMaxDelay)]
                   /\ attempts' = [attempts EXCEPT ![t] = Min(@ + 1, MaxAttempts)]
                   /\ pc' = [pc EXCEPT ![p] = "sleep"]
                   /\ denied_by' = [denied_by EXCEPT
                                      ![p] = IF BanBlocks THEN "ban" ELSE "limit"]
                   /\ UNCHANGED <<rate_limits, window_granted, header_override>>
    /\ UNCHANGED <<now, ban_until, call, ncalls>>

\* time.sleep(delay) returns
AcquireWake(p) ==
    /\ pc[p] = "sleep"
    /\ now >= wake[p]
    /\ pc' = [pc EXCEPT ![p] = "acquire"]
    /\ wake' = [wake EXCEPT ![p] = 0]
    /\ UNCHANGED <<now, rate_limits, is_banned, ban_until, attempts, call,
                   denied_by, ncalls, window_granted, header_override>>

\* _request: acquire returned False, BinanceAPIError('Rate limit exceeded')
RequestDenied_mut_sends(p) ==
    /\ pc[p] = "denied"
    /\ pc' = [pc EXCEPT ![p] = "granted"]
    /\ UNCHANGED <<now, rate_limits, is_banned, ban_until, attempts, call, wake,
                   denied_by, ncalls, window_granted, header_override>>

RequestDenied(p) ==
    /\ pc[p] = "denied"
    /\ pc' = [pc EXCEPT ![p] = "idle"]
    /\ call' = [call EXCEPT ![p] = NoCall]
    /\ denied_by' = [denied_by EXCEPT ![p] = "none"]
    /\ UNCHANGED <<now, rate_limits, is_banned, ban_until, attempts, wake, ncalls,
                   window_granted, header_override>>

(***************************************************************************)
(* RateLimitManager.update_from_response_headers: each header is a value   *)
(* or NoHeader when the response does not carry it.                        *)
(***************************************************************************)
update_usage_mut_keepmax(used_weight, order_count) ==
    [t \in RateLimitType |->
       IF t = "request_weight" /\ used_weight > rate_limits[t].current_usage
       THEN [rate_limits[t] EXCEPT !.current_usage = used_weight]
       ELSE IF t = "orders" /\ order_count > rate_limits[t].current_usage
       THEN [rate_limits[t] EXCEPT !.current_usage = order_count]
       ELSE rate_limits[t]]

update_usage(used_weight, order_count) ==
    [t \in RateLimitType |->
       IF t = "request_weight" /\ used_weight # NoHeader
       THEN [rate_limits[t] EXCEPT !.current_usage = used_weight]
       ELSE IF t = "orders" /\ order_count # NoHeader
       THEN [rate_limits[t] EXCEPT !.current_usage = order_count]
       ELSE rate_limits[t]]

\* RateLimitManager._set_ban
set_ban(duration_seconds) == [is_banned |-> TRUE, ban_until |-> now + duration_seconds]

\* the retry-after header of update_from_response_headers
update_ban_mut_ignored(retry_after) == [is_banned |-> is_banned, ban_until |-> ban_until]

update_ban(retry_after) ==
    IF retry_after # NoHeader
    THEN set_ban(retry_after)
    ELSE [is_banned |-> is_banned, ban_until |-> ban_until]

\* RateLimitManager.handle_rate_limit_error, given the ban state before it
handle_rate_limit_error(status_code, ban) ==
    IF status_code = 418 THEN set_ban(TeapotBanDuration) ELSE ban

\* _request: the response arrives; update_from_response_headers, then for
\* 429 and 418 handle_rate_limit_error
Response(p, r) ==
    /\ pc[p] = "granted"
    /\ rate_limits' = update_usage(r.used_weight, r.order_count)
    /\ header_override' =
         [t \in RateLimitType |->
            \/ header_override[t]
            \/ (t = "request_weight" /\ r.used_weight # NoHeader)
            \/ (t = "orders" /\ r.order_count # NoHeader)]
    /\ LET ban == IF r.status \in {429, 418}
                  THEN handle_rate_limit_error(r.status, update_ban(r.retry_after))
                  ELSE update_ban(r.retry_after)
       IN  /\ is_banned' = ban.is_banned
           /\ ban_until' = ban.ban_until
    /\ pc' = [pc EXCEPT ![p] = "idle"]
    /\ call' = [call EXCEPT ![p] = NoCall]
    /\ UNCHANGED <<now, attempts, wake, denied_by, ncalls, window_granted>>

\* _request: aiohttp.ClientError or timeout, no response and no headers
TransportError(p) ==
    /\ pc[p] = "granted"
    /\ pc' = [pc EXCEPT ![p] = "idle"]
    /\ call' = [call EXCEPT ![p] = NoCall]
    /\ UNCHANGED <<now, rate_limits, is_banned, ban_until, attempts, wake, denied_by,
                   ncalls, window_granted, header_override>>

(***************************************************************************)
(* RateLimitManager.reset_limits                                           *)
(***************************************************************************)
ResetLimits ==
    /\ rate_limits' = [t \in RateLimitType |-> NewRateLimit]
    /\ is_banned' = FALSE
    /\ ban_until' = 0
    /\ attempts' = [t \in RateLimitType |-> 0]
    /\ UNCHANGED <<now, pc, call, wake, denied_by, ncalls, window_granted,
                   header_override>>

\* the clock advances
Tick ==
    /\ now + TickStep <= MaxTime
    /\ now' = now + TickStep
    /\ UNCHANGED <<rate_limits, is_banned, ban_until, attempts, pc, call, wake,
                   denied_by, ncalls, window_granted, header_override>>

InitRateLimiter ==
    /\ now = 0
    /\ rate_limits = [t \in RateLimitType |-> NewRateLimit]
    /\ is_banned = FALSE
    /\ ban_until = 0
    /\ attempts = [t \in RateLimitType |-> 0]
    /\ pc = [p \in Callers |-> "idle"]
    /\ call = [p \in Callers |-> NoCall]
    /\ wake = [p \in Callers |-> 0]
    /\ denied_by = [p \in Callers |-> "none"]
    /\ ncalls = 0
    /\ window_granted = [t \in RateLimitType |-> 0]
    /\ header_override = [t \in RateLimitType |-> FALSE]

(***************************************************************************)
(* Decimal arithmetic of the order manager.  A float value v is held as    *)
(* the integer v * 10^d (d fractional digits).                             *)
(***************************************************************************)
Max(a, b) == IF a > b THEN a ELSE b

\* number of fractional digits the shortest decimal form of v needs
RECURSIVE FracDigits(_, _)
FracDigits(v, d) ==
    IF d = 0 \/ v % 10 # 0 THEN d ELSE FracDigits(v \div 10, d - 1)

\* str(float): the shortest form, with at least one fractional digit ("1.0"),
\* so Decimal(str(step)) has exponent -ReprDigits
ReprDigits(v, d) == Max(1, FracDigits(v, d))

\* Decimal.quantize(exp, rounding=ROUND_DOWN): the value is cut to the
\* exponent of exp, whatever the coefficient of exp is
quantize_down(v, exp, d) ==
    LET unit == Pow(10, d - ReprDigits(exp, d))
    IN  (v \div unit) * unit

\* Decimal.quantize(exp) under the default context: ROUND_HALF_EVEN
quantize_half_even(v, exp, d) ==
    LET unit == Pow(10, d - ReprDigits(exp, d))
        low == v \div unit
        rest == v % unit
    IN  IF 2 * rest > unit \/ (2 * rest = unit /\ low % 2 = 1)
        THEN (low + 1) * unit
        ELSE low * unit

UsdScale == Pow(10, QDigits + PDigits)

(***************************************************************************)
(* OrderManager.__init__: the risk limits, in USD units.                   *)
(***************************************************************************)
max_order_size_usd == (MaxPositionSizeUsd * UsdScale) \div 2
min_order_size_usd == MinOrderSizeUsd * UsdScale
max_daily_volume_usd == MaxDailyVolumeUsd * UsdScale

(***************************************************************************)
(* OrderManager.initialize: the cached exchange metadata.  One pair with a *)
(* fractional step and a MIN_NOTIONAL filter above the configured minimum  *)
(* order size, one pair with step 1.0 and no MIN_NOTIONAL filter.          *)
(***************************************************************************)
symbol_info ==
    [SOLUSDT |-> [minQty |-> 10, maxQty |-> 10000, stepSize |-> 10,
                  tickSize |-> 10, has_min_notional |-> TRUE,
                  minNotional |-> 20 * UsdScale],
     DOGEUSDT |-> [minQty |-> 100, maxQty |-> 900000, stepSize |-> 100,
                   tickSize |-> 1, has_min_notional |-> FALSE,
                   minNotional |-> 0]]

\* prices the exchange can quote for a pair
MarketPrices(symbol) ==
    IF symbol = "SOLUSDT" THEN {5000, 10000} ELSE {10}

Environments == {"testnet", "mainnet", "paper"}

Tasks == {"a", "b"}

\* the order requests the callers make (price 0 stands for no price)
OrderRequests ==
    { [symbol |-> "XXXUSDT", order_type |-> "MARKET", quantity |-> 25, price |-> 0],
      [symbol |-> "SOLUSDT", order_type |-> "MARKET", quantity |-> 0, price |-> 0],
      [symbol |-> "SOLUSDT", order_type |-> "MARKET", quantity |-> 5, price |-> 0],
      [symbol |-> "SOLUSDT", order_type |-> "MARKET", quantity |-> 15000, price |-> 0],
      [symbol |-> "SOLUSDT", order_type |-> "LIMIT", quantity |-> 25, price |-> 0],
      [symbol |-> "SOLUSDT", order_type |-> "MARKET", quantity |-> 15, price |-> 0],
      [symbol |-> "SOLUSDT", order_type |-> "MARKET", quantity |-> 6000, price |-> 0],
      [symbol |-> "SOLUSDT", order_type |-> "LIMIT", quantity |-> 25, price |-> 10005],
      [symbol |-> "DOGEUSDT", order_type |-> "MARKET", quantity |-> 15050, price |-> 0] }

\* how a client call fails once its request is sent: an error status
\* (BinanceAPIError) or no response (ClientError, TimeoutError)
CallErrors == {"api_error", "transport"}

\* the real order endpoint's answers: status, executedQty as a share of the
\* submitted quantity (all or nothing)
OrderResponses ==
    { [status |-> "FILLED", executed |-> TRUE],
      [status |-> "NEW", executed |-> FALSE],
      [status |-> "EXPIRED_IN_MATCH", executed |-> FALSE] }

\* OrderStatus
OrderStatus == {"PENDING", "NEW", "PARTIALLY_FILLED", "FILLED", "CANCELED",
                "PENDING_CANCEL", "REJECTED", "EXPIRED"}

NoRequest == [symbol |-> "XXXUSDT", order_type |-> "MARKET", quantity |-> 0, price |-> 0]

NoSubmission == [quantity |-> 0, price |-> 0]

NoResult == [success |-> FALSE, error |-> "none", filled_quantity |-> 0,
             filled_price |-> 0]

\* calls: the client methods place_order has called; sent: the HTTP requests
\* the client has sent for it
\* submitted: the quantity and price place_order has passed to the client
IdleTask == [pc |-> "idle", request |-> NoRequest, dry_run |-> FALSE,
             current_price |-> 0, fq |-> 0, fp |-> 0, result |-> NoResult,
             calls |-> <<>>, sent |-> <<>>, submitted |-> NoSubmission]

(***************************************************************************)
(* ConfigManager                                                           *)
(***************************************************************************)
is_paper_trading_mut_testnet == environment \in {"paper", "testnet"}
is_paper_trading == environment = "paper"

is_testnet == environment = "testnet"

(***************************************************************************)
(* OrderManager._validate_order_request: TRUE when it raises ValueError    *)
(***************************************************************************)
LimitStyle(order_type) ==
    order_type \in {"LIMIT", "STOP_LOSS_LIMIT", "TAKE_PROFIT_LIMIT"}

validation_fails_mut_nominqty(r) ==
    \/ r.symbol \notin DOMAIN symbol_info
    \/ (LimitStyle(r.order_type) /\ r.price <= 0)
    \/ r.quantity > symbol_info[r.symbol].maxQty

validation_fails(r) ==
    \/ r.symbol \notin DOMAIN symbol_info
    \/ r.quantity <= 0
    \/ (LimitStyle(r.order_type) /\ r.price <= 0)
    \/ r.quantity < symbol_info[r.symbol].minQty
    \/ r.quantity > symbol_info[r.symbol].maxQty

(***************************************************************************)
(* OrderManager._format_quantity, _format_price                            *)
(***************************************************************************)
\* the body of _format_quantity, given the stepSize of the LOT_SIZE filter
format_quantity(quantity, step_size) == quantize_down(quantity, step_size, QDigits)

\* the body of _format_price, given the tickSize of the PRICE_FILTER
format_price(price, tick_size) == quantize_half_even(price, tick_size, PDigits)

_format_quantity(symbol, quantity) ==
    format_quantity(quantity, symbol_info[symbol].stepSize)

_format_price(symbol, price) ==
    format_price(price, symbol_info[symbol].tickSize)

(***************************************************************************)
(* OrderManager._check_risk_limits, given the price just fetched           *)
(***************************************************************************)
order_notional(r, current_price) == r.quantity * current_price

below_min_order_size_mut_off(notional) == FALSE
below_min_order_size(notional) == notional < min_order_size_usd

above_max_order_size(notional) == notional > max_order_size_usd

\* the daily window after the 24 hour test
daily_window_mut_ge ==
    IF now - daily_reset_time >= DailyWindowSeconds
    THEN [volume |-> 0, start |-> now]
    ELSE [volume |-> daily_volume_usd, start |-> daily_reset_time]

daily_window ==
    IF now - daily_reset_time > DailyWindowSeconds
    THEN [volume |-> 0, start |-> now]
    ELSE [volume |-> daily_volume_usd, start |-> daily_reset_time]

daily_limit_exceeded(notional) ==
    daily_window.volume + notional > max_daily_volume_usd

\* _get_min_notional_filter finds a MIN_NOTIONAL filter and the notional is
\* below its value: ValueError is raised inside the try block
below_exchange_min_notional(symbol, notional) ==
    /\ symbol_info[symbol].has_min_notional
    /\ notional < symbol_info[symbol].minNotional

\* `except ValueError: pass` around the exchange minimum notional test
\* catches the ValueError raised by the test itself
min_notional_error_swallowed == TRUE

exchange_min_notional_rejects(symbol, notional) ==
    below_exchange_min_notional(symbol, notional) /\ ~min_notional_error_swallowed

\* the ValueError _check_risk_limits raises, "none" when it returns
risk_check_error(r, current_price) ==
    LET n == order_notional(r, current_price)
    IN  IF below_min_order_size(n) THEN "below_min_order_size"
        ELSE IF above_max_order_size(n) THEN "above_max_order_size"
        ELSE IF daily_limit_exceeded(n) THEN "daily_volume_limit"
        ELSE IF exchange_min_notional_rejects(r.symbol, n)
        THEN "below_exchange_min_notional"
        ELSE "none"

\* the 24 hour test is reached only when the order size tests pass
risk_check_resets_window(r, current_price) ==
    LET n == order_notional(r, current_price)
    IN  ~below_min_order_size(n) /\ ~above_max_order_size(n)

(***************************************************************************)
(* OrderManager.place_order: try ... except Exception                      *)
(***************************************************************************)
ValueErrors == {"validation", "below_min_order_size", "above_max_order_size",
                "daily_volume_limit", "below_exchange_min_notional", "parse"}

place_order_catches_mut_valueerror(kind) == kind \in ValueErrors
place_order_catches(kind) == TRUE

Fail(t, kind) ==
    IF place_order_catches(kind)
    THEN [t EXCEPT !.pc = "returned",
                   !.result = [success |-> FALSE, error |-> kind,
                               filled_quantity |-> 0, filled_price |-> 0]]
    ELSE [t EXCEPT !.pc = "raised", !.result = NoResult]

Succeed(t, q, price) ==
    [t EXCEPT !.pc = "returned",
              !.result = [success |-> TRUE, error |-> "none",
                          filled_quantity |-> q, filled_price |-> price]]

(***************************************************************************)
(* BinanceClient: a call of the order manager into the client.  The call   *)
(* is recorded; BinanceClient._request sends the HTTP request only when    *)
(* acquire grants it (granted is the rate limiter's answer).               *)
(***************************************************************************)
PriceEndpoint == "/api/v3/ticker/price"
TestOrderEndpoint == "/api/v3/order/test"
OrderEndpoint == "/api/v3/order"

\* get_symbol_price: t after the call is made; pc is where the reply is awaited
CallGetSymbolPrice(t, granted, pc_await) ==
    LET c == [t EXCEPT !.calls = Append(@, "get_symbol_price")]
    IN  IF granted
        THEN [c EXCEPT !.sent = Append(@, PriceEndpoint), !.pc = pc_await]
        ELSE Fail(c, "rate_limit")

\* SecurityManager.validate_order_data on the order parameters
validate_order_data_fails(quantity) == quantity <= 0

submission_mut_raw(t) == [quantity |-> t.request.quantity, price |-> t.request.price]

\* quantity=float(formatted_quantity), price=float(formatted_price) if
\* formatted_price else None
submission(t) == [quantity |-> t.fq, price |-> t.fp]

\* BinanceClient.place_test_order
CallPlaceTestOrder(t, granted) ==
    LET c == [t EXCEPT !.calls = Append(@, "place_test_order"),
                       !.submitted = submission(t)]
    IN  IF validate_order_data_fails(t.fq) THEN Fail(c, "validation")
        ELSE IF granted
        THEN [c EXCEPT !.sent = Append(@, TestOrderEndpoint), !.pc = "await_test_order"]
        ELSE Fail(c, "rate_limit")

\* BinanceClient.place_order: in paper trading mode a test order instead
CallPlaceOrder(t, granted) ==
    LET c == [t EXCEPT !.calls = Append(@, "place_order"),
                       !.submitted = submission(t)]
    IN  IF validate_order_data_fails(t.fq) THEN Fail(c, "validation")
        ELSE IF granted
        THEN [c EXCEPT !.sent = Append(@, IF is_paper_trading THEN TestOrderEndpoint
                                          ELSE OrderEndpoint),
                       !.pc = "await_order"]
        ELSE Fail(c, "rate_limit")

\* place_order, "Place the order": the endpoint by environment
SubmitOrder(t, granted) ==
    IF is_paper_trading THEN CallPlaceTestOrder(t, granted)
    ELSE CallPlaceOrder(t, granted)

\* place_order after the formatting: the dry-run result (with a price fetch
\* for an order without price) or the submission
AfterFormat_mut_nodryrun(f, granted) == SubmitOrder(f, granted)

AfterFormat(f, granted) ==
    IF f.dry_run
    THEN IF f.fp # 0 THEN Succeed(f, f.fq, f.fp)
         ELSE CallGetSymbolPrice(f, granted, "await_dry_price")
    ELSE SubmitOrder(f, granted)

(***************************************************************************)
(* OrderManager.place_order, one task k, from one await to the next.       *)
(***************************************************************************)
\* entry: _validate_order_request, then the price fetch of _check_risk_limits
PlaceOrder(k, r, dry_run, granted) ==
    /\ om[k].pc = "idle"
    /\ norders < MaxOrders
    /\ norders' = norders + 1
    /\ LET t == [IdleTask EXCEPT !.request = r, !.dry_run = dry_run]
       IN  om' = [om EXCEPT ![k] = IF validation_fails(r) THEN Fail(t, "validation")
                                   ELSE CallGetSymbolPrice(t, granted, "await_risk_price")]
    /\ UNCHANGED <<environment, daily_volume_usd, daily_reset_time, order_history>>

\* the price fetch of _check_risk_limits failed
RiskPriceFailed(k, reply) ==
    /\ om[k].pc = "await_risk_price"
    /\ om' = [om EXCEPT ![k] = Fail(@, reply)]
    /\ UNCHANGED <<environment, daily_volume_usd, daily_reset_time, order_history,
                   norders>>

\* the price arrived: the rest of _check_risk_limits, the formatting, and
\* the dry-run result or the submission
RiskPriceArrived(k, current_price, granted) ==
    /\ om[k].pc = "await_risk_price"
    /\ current_price \in MarketPrices(om[k].request.symbol)
    /\ LET t == [om[k] EXCEPT !.current_price = current_price]
           r == t.request
           f == [t EXCEPT !.fq = _format_quantity(r.symbol, r.quantity),
                          !.fp = IF r.price # 0 THEN _format_price(r.symbol, r.price)
                                 ELSE 0]
       IN  /\ IF risk_check_resets_window(r, current_price)
              THEN /\ daily_volume_usd' = daily_window.volume
                   /\ daily_reset_time' = daily_window.start
              ELSE UNCHANGED <<daily_volume_usd, daily_reset_time>>
           /\ om' = [om EXCEPT ![k] =
                       IF risk_check_error(r, current_price) # "none"
                       THEN Fail(t, risk_check_error(r, current_price))
                       ELSE AfterFormat(f, granted)]
    /\ UNCHANGED <<environment, order_history, norders>>

\* "Update daily volume", "Add to history"
RecordResult_mut_nohistory(q, price) ==
    /\ daily_volume_usd' = IF q > 0 THEN daily_volume_usd + q * price
                           ELSE daily_volume_usd
    /\ UNCHANGED order_history

RecordResult(q, price) ==
    /\ daily_volume_usd' = IF q > 0 THEN daily_volume_usd + q * price
                           ELSE daily_volume_usd
    /\ order_history' = Append(order_history,
                               [filled_quantity |-> q, filled_price |-> price])

\* the submission failed: API error or transport error
OrderFailed_mut_retry(k, reply) ==
    /\ om[k].pc \in {"await_test_order", "await_order"}
    /\ om' = [om EXCEPT ![k] = SubmitOrder(@, TRUE)]
    /\ UNCHANGED <<environment, daily_volume_usd, daily_reset_time, order_history,
                   norders>>

OrderFailed(k, reply) ==
    /\ om[k].pc \in {"await_test_order", "await_order"}
    /\ om' = [om EXCEPT ![k] = Fail(@, reply)]
    /\ UNCHANGED <<environment, daily_volume_usd, daily_reset_time, order_history,
                   norders>>

\* place_test_order returned: the result is built from the request
TestOrderAccepted(k, granted) ==
    /\ om[k].pc = "await_test_order"
    /\ LET t == om[k]
       IN  IF t.fp # 0
           THEN /\ om' = [om EXCEPT ![k] = Succeed(t, t.fq, t.fp)]
                /\ RecordResult(t.fq, t.fp)
           ELSE /\ om' = [om EXCEPT ![k] =
                            CallGetSymbolPrice(t, granted, "await_fill_price")]
                /\ UNCHANGED <<daily_volume_usd, order_history>>
    /\ UNCHANGED <<environment, daily_reset_time, norders>>

\* client.place_order returned: the result is parsed from the response;
\* OrderStatus(...) raises ValueError for a status the enumeration lacks
OrderAccepted(k, resp) ==
    /\ om[k].pc = "await_order"
    /\ LET t == om[k]
           q == IF resp.executed THEN t.fq ELSE 0
       IN  IF resp.status \notin OrderStatus
           THEN /\ om' = [om EXCEPT ![k] = Fail(t, "parse")]
                /\ UNCHANGED <<daily_volume_usd, order_history>>
           ELSE /\ om' = [om EXCEPT ![k] = Succeed(t, q, t.fp)]
                /\ RecordResult(q, t.fp)
    /\ UNCHANGED <<environment, daily_reset_time, norders>>

\* the price fetch that fills filled_price of a market order failed
FillPriceFailed(k, reply) ==
    /\ om[k].pc \in {"await_dry_price", "await_fill_price"}
    /\ om' = [om EXCEPT ![k] = Fail(@, reply)]
    /\ UNCHANGED <<environment, daily_volume_usd, daily_reset_time, order_history,
                   norders>>

\* ... and arrived
FillPriceArrived(k, current_price) ==
    /\ om[k].pc \in {"await_dry_price", "await_fill_price"}
    /\ current_price \in MarketPrices(om[k].request.symbol)
    /\ LET t == om[k]
       IN  /\ om' = [om EXCEPT ![k] = Succeed(t, t.fq, current_price)]
           /\ IF t.pc = "await_fill_price"
              THEN RecordResult(t.fq, current_price)
              ELSE UNCHANGED <<daily_volume_usd, order_history>>
    /\ UNCHANGED <<environment, daily_reset_time, norders>>

\* the caller has taken the result
OrderDone(k) ==
    /\ om[k].pc \in {"returned", "raised"}
    /\ om' = [om EXCEPT ![k] = IdleTask]
    /\ UNCHANGED <<environment, daily_volume_usd, daily_reset_time, order_history,
                   norders>>

\* the clock advances (order manager time scale)
OrderTick ==
    /\ now + OrderTickStep <= MaxOrderTime
    /\ now' = now + OrderTickStep

InitOrderManager ==
    /\ daily_volume_usd = 0
    /\ daily_reset_time = 0
    /\ order_history = <<>>
    /\ om = [k \in Tasks |-> IdleTask]
    /\ norders = 0

(***************************************************************************)
(* The formatting functions on their own: a positive value and the step    *)
(* (or tick) size of the symbol's filter are given, one function is        *)
(* applied.                                                                *)
(***************************************************************************)
\* step and tick sizes exchange metadata carries: 0.01, 0.1, 0.25, 0.5, 1.0, 10.0
FilterSteps == {1, 10, 25, 50, 100, 1000}

NoFormat == [op |-> "none", value |-> 1, step |-> 1, result |-> 0]

FormatQuantity ==
    /\ fmt.op = "input"
    /\ fmt' = [fmt EXCEPT !.op = "_format_quantity",
                          !.result = format_quantity(fmt.value, fmt.step)]

FormatPrice ==
    /\ fmt.op = "input"
    /\ fmt' = [fmt EXCEPT !.op = "_format_price",
                          !.result = format_price(fmt.value, fmt.step)]

InitFormat ==
    fmt \in [op : {"input"}, value : 1..MaxFmtValue, step : FilterSteps, result : {0}]

(***************************************************************************)
(* BinanceClient._request from the response on: a response (status, rate   *)
(* limit headers, body) is given, the handling of lines 241-278 is applied *)
(* to it and to the rate limiter.                                          *)
(***************************************************************************)
HttpStatuses == {200, 201, 204, 400, 401, 403, 404, 418, 429, 500, 503}

\* the body: a JSON object with or without a 'code', JSON that is not an
\* object, or text that is not JSON
HttpBodies == {"object_with_code", "object_without_code", "json_not_object", "not_json"}

NoHttp == [stage |-> "none", status |-> 200, body |-> "not_json",
           used_weight |-> NoHeader, retry_after |-> NoHeader,
           outcome |-> [kind |-> "none"]]

\* the branch of `if response.status == 200 / elif response.status in [429, 418] / else`
status_branch_mut_any2xx(status) ==
    IF status \in 200..299 THEN "ok"
    ELSE IF status \in {429, 418} THEN "rate_limit"
    ELSE "error"

status_branch(status) ==
    IF status = 200 THEN "ok"
    ELSE IF status \in {429, 418} THEN "rate_limit"
    ELSE "error"

\* what _request returns or raises for a response
request_outcome(status, body) ==
    CASE status_branch(status) = "ok" ->
           IF body = "not_json"
           THEN [kind |-> "BinanceAPIError", message |-> "Invalid JSON response",
                 status_code |-> "None", error_code |-> "None"]
           ELSE [kind |-> "json"]
      [] status_branch(status) = "rate_limit" ->
           [kind |-> "BinanceAPIError", message |-> "Rate limit error",
            status_code |-> status, error_code |-> "None"]
      [] status_branch(status) = "error" ->
           IF body = "json_not_object"
           THEN [kind |-> "AttributeError"]
           ELSE [kind |-> "BinanceAPIError",
                 message |-> IF body = "not_json" THEN "API error: response_text"
                             ELSE "API error: msg",
                 status_code |-> status,
                 error_code |-> IF body = "object_with_code" THEN "code" ELSE "None"]

HandleResponse ==
    /\ http.stage = "received"
    /\ rate_limits' = update_usage(http.used_weight, NoHeader)
    /\ LET ban == IF status_branch(http.status) = "rate_limit"
                  THEN handle_rate_limit_error(http.status, update_ban(http.retry_after))
                  ELSE update_ban(http.retry_after)
       IN  /\ is_banned' = ban.is_banned
           /\ ban_until' = ban.ban_until
    /\ http' = [http EXCEPT !.stage = "done",
                            !.outcome = request_outcome(http.status, http.body)]
    /\ UNCHANGED <<now, attempts, pc, call, wake, denied_by, ncalls, window_granted,
                   header_override>>

InitHttp ==
    http \in [stage : {"received"}, status : HttpStatuses, body : HttpBodies,
              used_weight : {NoHeader, 50}, retry_after : {NoHeader, 20},
              outcome : {[kind |-> "none"]}]

(***************************************************************************)
(* SecurityManager (binance_wallet_integration/security.py).               *)
(* A credential string is described by what the validation looks at: its   *)
(* length, the test marker it contains and how many of its characters are  *)
(* leading or trailing whitespace (str.strip removes those).               *)
(***************************************************************************)
MinKeyLength == 32
MinTestKeyLength == 8
DigestBytes == 32

NoneValue == [type |-> "None"]

Str(len, marker, pad) == [type |-> "str", len |-> len, marker |-> marker, pad |-> pad]

\* the credentials a caller may pass: None, a non-string, '', and strings
\* around both length limits, with and without a test marker or whitespace
CredentialArgs ==
    { NoneValue, [type |-> "int"],
      Str(0, "none", 0),
      Str(MinTestKeyLength - 1, "test", 0), Str(MinTestKeyLength, "test", 0),
      Str(MinTestKeyLength + 3, "paper_key", 0),
      Str(MinTestKeyLength + 6, "paper_secret", 0),
      Str(MinKeyLength - 1, "none", 0), Str(MinKeyLength, "none", 0),
      Str(MinKeyLength, "none", MinKeyLength), Str(MinKeyLength + 1, "none", 2) }

\* what the private_key_path argument can point to
PrivateKeyPaths ==
    {"None", "", "missing", "unreadable", "not_pem", "encrypted_pem", "rsa_pem",
     "ed25519_pem"}

\* Python truth value of an argument
truthy(value) ==
    CASE value.type = "None" -> FALSE
      [] value.type = "str"  -> value.len > 0
      [] OTHER               -> TRUE

\* str.strip()
strip(s) == Str(s.len - s.pad, s.marker, 0)

\* any(pattern in api_key.lower() for pattern in test_patterns)
is_test_key(api_key) == api_key.marker \in {"test", "paper_key"}

is_test_secret(api_secret) == api_secret.marker \in {"test", "paper_secret"}

\* _validate_api_key: the stored key, or the ValueError it raises
validate_api_key(api_key) ==
    IF ~truthy(api_key) \/ api_key.type /= "str"
    THEN [error |-> "API key must be a non-empty string"]
    ELSE IF is_test_key(api_key)
         THEN IF api_key.len < MinTestKeyLength
              THEN [error |-> "Test API key must be at least 8 characters"]
              ELSE [error |-> "", value |-> strip(api_key)]
         ELSE IF api_key.len < MinKeyLength
              THEN [error |-> "API key appears to be too short"]
              ELSE [error |-> "", value |-> strip(api_key)]

\* _validate_api_secret
validate_api_secret(api_secret) ==
    IF ~truthy(api_secret) \/ api_secret.type /= "str"
    THEN [error |-> "API secret must be a non-empty string"]
    ELSE IF is_test_secret(api_secret)
         THEN IF api_secret.len < MinTestKeyLength
              THEN [error |-> "Test API secret must be at least 8 characters"]
              ELSE [error |-> "", value |-> strip(api_secret)]
         ELSE IF api_secret.len < MinKeyLength
              THEN [error |-> "API secret appears to be too short"]
              ELSE [error |-> "", value |-> strip(api_secret)]

\* _load_private_key: every failure leaves as a ValueError
load_private_key(private_key_path) ==
    CASE private_key_path = "missing"     -> [error |-> "Private key file not found"]
      [] private_key_path = "ed25519_pem" -> [error |-> "", value |-> [type |-> "Ed25519PrivateKey"]]
      [] OTHER                            -> [error |-> "Failed to load private key"]

select_auth_mut_secretfirst(api_secret, private_key_path) ==
    IF truthy(api_secret) THEN "hmac"
    ELSE IF private_key_path \notin {"None", ""} THEN "ed25519"
    ELSE "none"

\* the branch __init__ takes: `if private_key_path: ... elif api_secret: ... else`
select_auth(api_secret, private_key_path) ==
    IF private_key_path \notin {"None", ""} THEN "ed25519"
    ELSE IF truthy(api_secret) THEN "hmac"
    ELSE "none"

NoInstance == [auth_method |-> "none"]

\* SecurityManager.__init__: the instance, or the ValueError it raises
construct(api_key, api_secret, private_key_path) ==
    LET key == validate_api_key(api_key)
        auth == select_auth(api_secret, private_key_path)
    IN  IF key.error /= "" THEN [error |-> key.error, inst |-> NoInstance]
        ELSE CASE auth = "ed25519" ->
                    LET pk == load_private_key(private_key_path)
                    IN  IF pk.error /= ""
                        THEN [error |-> pk.error, inst |-> NoInstance]
                        ELSE [error |-> "",
                              inst |-> [auth_method |-> "ed25519", api_key |-> key.value,
                                        private_key |-> pk.value,
                                        api_secret |-> NoneValue]]
               [] auth = "hmac" ->
                    LET secret == validate_api_secret(api_secret)
                    IN  IF secret.error /= ""
                        THEN [error |-> secret.error, inst |-> NoInstance]
                        ELSE [error |-> "",
                              inst |-> [auth_method |-> "hmac", api_key |-> key.value,
                                        api_secret |-> secret.value,
                                        private_key |-> NoneValue]]
               [] OTHER ->
                    [error |-> "Either api_secret or private_key_path must be provided",
                     inst |-> NoInstance]

(***************************************************************************)
(* generate_signature.  A params dict is the sequence of its items in      *)
(* insertion order.  Text is a sequence of characters.  SHA-256 is not     *)
(* computed: Digest stands for it as a function of the key and of every    *)
(* character of the message in order, giving DigestBytes bytes.            *)
(***************************************************************************)
ParamKeys == {"symbol", "side", "type"}

\* str order of the parameter names
KeyRank(k) ==
    CASE k = "side" -> 1 [] k = "symbol" -> 2 [] k = "timestamp" -> 3 [] k = "type" -> 4

ParamValue(k) ==
    CASE k = "symbol" -> <<"B", "T", "C">>
      [] k = "side"   -> <<"B", "U", "Y">>
      [] k = "type"   -> <<"a", " ", "b">>
      [] k = "timestamp" -> <<"1", "7">>

KeyText(k) ==
    CASE k = "symbol" -> <<"s", "y", "m">>
      [] k = "side"   -> <<"s", "i", "d">>
      [] k = "type"   -> <<"t", "y", "p">>
      [] k = "timestamp" -> <<"t", "i", "m">>

\* the dicts with the items of ks, in every insertion order
RECURSIVE InsertionOrders(_)
InsertionOrders(ks) ==
    IF ks = {} THEN {<<>>}
    ELSE UNION {{<<k>> \o rest : rest \in InsertionOrders(ks \ {k})} : k \in ks}

ParamDicts == UNION {InsertionOrders(ks) : ks \in SUBSET ParamKeys}

\* sorted(params.items()): insertion of each item before the first larger key
RECURSIVE sorted_items(_)
sorted_items(items) ==
    IF items = <<>> THEN <<>>
    ELSE LET rest == sorted_items(Tail(items))
             k == Head(items)
             lower == SelectSeq(rest, LAMBDA x : KeyRank(x) < KeyRank(k))
             upper == SelectSeq(rest, LAMBDA x : KeyRank(x) >= KeyRank(k))
         IN  lower \o <<k>> \o upper

canonical_items_mut_unsorted(items) == items

\* the item order the HMAC branch signs
canonical_items(items) == sorted_items(items)

\* quote_plus of one character
quote_plus(c) == IF c = " " THEN <<"+">> ELSE <<c>>

RECURSIVE quote_text(_)
quote_text(text) ==
    IF text = <<>> THEN <<>> ELSE quote_plus(Head(text)) \o quote_text(Tail(text))

\* urlencode(items): k=v joined by &
RECURSIVE urlencode(_)
urlencode(items) ==
    IF items = <<>> THEN <<>>
    ELSE quote_text(KeyText(Head(items))) \o <<"=">> \o quote_text(ParamValue(Head(items)))
         \o (IF Len(items) > 1 THEN <<"&">> \o urlencode(Tail(items)) ELSE <<>>)

\* '&'.join(f'{param}={value}'), the Ed25519 payload
RECURSIVE join_payload(_)
join_payload(items) ==
    IF items = <<>> THEN <<>>
    ELSE KeyText(Head(items)) \o <<"=">> \o ParamValue(Head(items))
         \o (IF Len(items) > 1 THEN <<"&">> \o join_payload(Tail(items)) ELSE <<>>)

CharCode(c) ==
    CASE c = "=" -> 61 [] c = "&" -> 38 [] c = "+" -> 43 [] c = " " -> 32
      [] c = "B" -> 66 [] c = "T" -> 84 [] c = "C" -> 67 [] c = "U" -> 85
      [] c = "Y" -> 89 [] c = "a" -> 97 [] c = "b" -> 98 [] c = "s" -> 115
      [] c = "y" -> 121 [] c = "m" -> 109 [] c = "i" -> 105 [] c = "d" -> 100
      [] c = "t" -> 116 [] c = "p" -> 112 [] c = "1" -> 49 [] c = "7" -> 55

RECURSIVE Mix(_, _)
Mix(h, text) ==
    IF text = <<>> THEN h ELSE Mix((h * 131 + CharCode(Head(text))) % 65521, Tail(text))

\* hmac.new(key, message, sha256).digest()
Digest(key, message) ==
    LET h == Mix(key.len * 7 + (IF key.marker = "none" THEN 0 ELSE 1), message)
    IN  [i \in 1..DigestBytes |-> ((h \div i) + h * i) % 256]

HexDigits == <<"0", "1", "2", "3", "4", "5", "6", "7", "8", "9",
               "a", "b", "c", "d", "e", "f">>

\* bytes.hex()
RECURSIVE hex(_)
hex(bytes) ==
    IF bytes = <<>> THEN <<>>
    ELSE <<HexDigits[(Head(bytes) \div 16) + 1], HexDigits[(Head(bytes) % 16) + 1]>>
         \o hex(Tail(bytes))

\* generate_signature(params) on an instance
generate_signature(inst, params) ==
    IF inst.auth_method = "ed25519"
    THEN [encoding |-> "base64", signed |-> join_payload(params)]
    ELSE [encoding |-> "hex", signed |-> urlencode(canonical_items(params)),
          text |-> hex(Digest(inst.api_secret, urlencode(canonical_items(params))))]

NoSignature == [encoding |-> "none"]

\* SecurityManager(api_key, api_secret, private_key_path)
Construct ==
    /\ sec.stage = "args"
    /\ LET made == construct(sec.api_key, sec.api_secret, sec.private_key_path)
       IN  sec' = [sec EXCEPT !.stage = IF made.error = "" THEN "constructed" ELSE "raised",
                              !.error = made.error, !.inst = made.inst]

NothingSent == [place |-> "none", text |-> <<>>]

\* security.generate_signature(params)
GenerateSignature(params) ==
    /\ sec.stage = "constructed"
    /\ sec' = [sec EXCEPT !.params = params,
                          !.signature = generate_signature(sec.inst, params),
                          !.sent = NothingSent]

\* create_signed_params(params): the timestamp item is set, then the signature
\* of the dict so far; the signature item is inserted last
create_signed_params(inst, params) ==
    LET stamped == IF \E i \in 1..Len(params) : params[i] = "timestamp"
                   THEN params ELSE Append(params, "timestamp")
    IN  [items |-> stamped, signature |-> generate_signature(inst, stamped)]

\* _request(method, endpoint, params, signed=True): the signed dict goes
\* through urlencode(params) into the URL (GET) or the form body (others);
\* `text` is that string up to its last item, the signature
SignedRequest(method, params) ==
    /\ sec.stage = "constructed"
    /\ LET signed == create_signed_params(sec.inst, params)
       IN  sec' = [sec EXCEPT !.params = signed.items,
                              !.signature = signed.signature,
                              !.sent = [place |-> IF method = "GET" THEN "query"
                                                  ELSE "body",
                                        text |-> urlencode(signed.items)]]

InitSecurity ==
    sec \in [stage : {"args"}, api_key : CredentialArgs, api_secret : CredentialArgs,
             private_key_path : PrivateKeyPaths, error : {""}, inst : {NoInstance},
             params : {<<>>}, signature : {NoSignature}, sent : {NothingSent}]

NoSecurity ==
    [stage |-> "none", api_key |-> NoneValue, api_secret |-> NoneValue,
     private_key_path |-> "None", error |-> "", inst |-> NoInstance, params |-> <<>>,
     signature |-> NoSignature, sent |-> NothingSent]

(***************************************************************************)
(* WebSocketManager (binance_wallet_integration/websocket_manager.py).     *)
(* `connections` holds every WebSocketConnection object created, in order  *)
(* of creation; `registered` tells whether the object is a value of        *)
(* self._connections.  The public calls are issued by one caller that      *)
(* awaits each call; the read loops and reconnect loops are tasks that     *)
(* interleave with the calls and with each other.                          *)
(***************************************************************************)
MaxConnectionAttempts == 300
ConnectionAttemptWindow == 300
MaxReconnectAttempts == 5

StreamNames == {"btcusdt@trade", "ethusdt@trade"}

Handlers == {"on_message"}

NoHandler == "None"

\* what a handler does when it is awaited
HandlerResults == {"returns", "raises", "not_awaitable"}

\* inbound frames: text that is not JSON, JSON that is not an object, an object
\* without 'stream', and an object of each stream name
Messages ==
    {[json |-> "invalid"], [json |-> "array"], [json |-> "object", stream |-> "None"]}
    \cup {[json |-> "object", stream |-> s] : s \in StreamNames}

WsTimes == {t \in 0..MaxWsTime : t % WsTickStep = 0}

\* _check_connection_rate_limit: the attempts kept, those less than 300 s old
recent_attempts(attempts_at, current_time) ==
    [t \in WsTimes |-> IF current_time - t < ConnectionAttemptWindow
                       THEN attempts_at[t] ELSE 0]

RECURSIVE SumOver(_, _)
SumOver(f, S) ==
    IF S = {} THEN 0
    ELSE LET x == CHOOSE y \in S : TRUE IN f[x] + SumOver(f, S \ {x})

\* len(self._connection_attempts)
attempt_count(attempts_at) == SumOver(attempts_at, WsTimes)

connection_allowed_mut_always(attempts_at) == TRUE

\* the test of _check_connection_rate_limit on the pruned list
connection_allowed(attempts_at) == attempt_count(attempts_at) < MaxConnectionAttempts

\* _record_connection_attempt
record_attempt(attempts_at, current_time) ==
    [attempts_at EXCEPT ![current_time] = @ + 1]

\* _create_connection up to `await websockets.connect`: the list of attempts
\* after the call and whether the call went on to connect
create_connection(attempts_at, current_time) ==
    LET kept == recent_attempts(attempts_at, current_time)
    IN  IF connection_allowed(kept)
        THEN [attempts |-> record_attempt(kept, current_time), refused |-> FALSE]
        ELSE [attempts |-> kept, refused |-> TRUE]

NewConnection(streams) ==
    [streams |-> streams, is_connected |-> TRUE, websocket |-> "open",
     reconnect_attempts |-> 0, reader |-> "running", reconnect |-> "idle",
     registered |-> TRUE]

Conns == 1..Len(connections)

NoDispatch == [invoked |-> <<>>, raised |-> "None"]

\* how _create_connection ends: the exception it raises, or the connection
create_result(made, connects) ==
    IF made.refused THEN "rate_limit_exceeded"
    ELSE IF connects THEN "connected" ELSE "connect_failed"

\* start()
Start ==
    /\ running' = TRUE
    /\ UNCHANGED <<ws_now, connections, message_handlers, active_streams,
                   connection_attempts, dispatch, created, nsubscribes, nreconnects>>

\* stop(): every registered connection is closed, the three maps are cleared
Stop ==
    /\ running' = FALSE
    /\ connections' =
          [c \in Conns |->
              IF connections[c].registered
              THEN [connections[c] EXCEPT !.websocket = "closed",
                                          !.is_connected = FALSE,
                                          !.registered = FALSE]
              ELSE connections[c]]
    /\ active_streams' = {}
    /\ message_handlers' = [s \in StreamNames |-> NoHandler]
    /\ UNCHANGED <<ws_now, connection_attempts, dispatch, created, nsubscribes,
                   nreconnects>>

\* subscribe_to_stream(config, handler) for the config whose name is stream_name;
\* `connects` is the outcome of websockets.connect
Subscribe(stream_name, handler, connects) ==
    /\ nsubscribes < MaxSubscribeCalls
    /\ nsubscribes' = nsubscribes + 1
    /\ LET made == create_connection(connection_attempts, ws_now)
           connected == ~made.refused /\ connects
       IN  /\ message_handlers' =
                 IF handler /= NoHandler
                 THEN [message_handlers EXCEPT ![stream_name] = handler]
                 ELSE message_handlers
           /\ active_streams' = active_streams \cup {stream_name}
           /\ connection_attempts' = made.attempts
           /\ connections' = IF connected
                             THEN Append(connections, NewConnection({stream_name}))
                             ELSE connections
           /\ created' = create_result(made, connects)
    /\ UNCHANGED <<ws_now, running, dispatch, nreconnects>>

unsubscribe_closes_mut_never(connection) == FALSE

\* unsubscribe_from_stream: `if not connection.streams and connection.websocket`
unsubscribe_closes(connection) == connection.streams = {}

\* unsubscribe_from_stream(stream_name)
Unsubscribe(stream_name) ==
    /\ active_streams' = active_streams \ {stream_name}
    /\ message_handlers' = [message_handlers EXCEPT ![stream_name] = NoHandler]
    /\ connections' =
          [c \in Conns |->
              IF connections[c].registered /\ stream_name \in connections[c].streams
              THEN LET left == [connections[c] EXCEPT !.streams = @ \ {stream_name}]
                   IN  IF unsubscribe_closes(left)
                       THEN [left EXCEPT !.websocket = "closed", !.is_connected = FALSE]
                       ELSE left
              ELSE connections[c]]
    /\ UNCHANGED <<ws_now, running, connection_attempts, dispatch, created,
                   nsubscribes, nreconnects>>

\* `if stream in self._message_handlers`: the streams whose handler is awaited
dispatch_targets(stream, handlers) ==
    IF stream \in StreamNames /\ handlers[stream] /= NoHandler
    THEN <<stream>> ELSE <<>>

\* the exception raised inside the try block of _handle_message
body_exception(message, targets, result) ==
    CASE message.json = "invalid" -> "JSONDecodeError"
      [] message.json = "array"   -> "AttributeError"
      [] targets = <<>>           -> "None"
      [] result = "raises"        -> "HandlerError"
      [] result = "not_awaitable" -> "TypeError"
      [] OTHER                    -> "None"

handle_message_catches_mut_jsononly(exception) == exception = "JSONDecodeError"

\* `except json.JSONDecodeError` and `except Exception`
handle_message_catches(exception) == TRUE

\* _handle_message(connection_id, message): the handlers it awaits, in order,
\* and the exception that leaves it
handle_message(message, handlers, result) ==
    LET targets == IF message.json /= "object" \/ message.stream \in {"None", ""}
                   THEN <<>> ELSE dispatch_targets(message.stream, handlers)
        exception == body_exception(message, targets, result)
    IN  [invoked |-> targets,
         raised |-> IF handle_message_catches(exception) THEN "None" ELSE exception]

read_loop_breaks_mut_never == FALSE

\* _connection_loop: `if not self._running: break`
read_loop_breaks == ~running

\* one turn of `async for message in connection.websocket` in _connection_loop;
\* `result` is what the awaited handler does
Message(c, message, result) ==
    /\ connections[c].reader = "running"
    /\ connections[c].websocket = "open"
    /\ IF ~read_loop_breaks
       THEN LET handled == handle_message(message, message_handlers, result)
            IN  /\ dispatch' = handled
                /\ connections' =
                      IF handled.raised = "None" THEN connections
                      ELSE [connections EXCEPT ![c].reader = "error",
                                               ![c].websocket = "closed",
                                               ![c].is_connected = FALSE]
       ELSE /\ connections' = [connections EXCEPT ![c].reader = "stopped",
                                                  ![c].websocket = "closed",
                                                  ![c].is_connected = FALSE]
            /\ UNCHANGED dispatch
    /\ UNCHANGED <<ws_now, running, message_handlers, active_streams,
                   connection_attempts, created, nsubscribes, nreconnects>>

\* the iteration ends because the peer or the network closed the connection,
\* or raises another error; `how` is "closed" or "error"
ReadLoopFails(c, how) ==
    /\ connections[c].reader = "running"
    /\ connections[c].websocket = "open"
    /\ connections' = [connections EXCEPT ![c].reader = how,
                                          ![c].websocket = "closed",
                                          ![c].is_connected = FALSE]
    /\ UNCHANGED <<ws_now, running, message_handlers, active_streams,
                   connection_attempts, dispatch, created, nsubscribes, nreconnects>>

\* the iteration ends because unsubscribe_from_stream or stop closed the socket
ReadLoopClosedLocally(c) ==
    /\ connections[c].reader = "running"
    /\ connections[c].websocket = "closed"
    /\ connections' = [connections EXCEPT ![c].reader = "closed_locally",
                                          ![c].is_connected = FALSE]
    /\ UNCHANGED <<ws_now, running, message_handlers, active_streams,
                   connection_attempts, dispatch, created, nsubscribes, nreconnects>>

\* _reconnect_loop(connection_id) is called for a registered connection whose
\* read loop has ended
ReconnectStart(c) ==
    /\ nreconnects < MaxReconnectLoops
    /\ connections[c].registered
    /\ connections[c].reader \in {"closed", "error"}
    /\ ~connections[c].is_connected
    /\ connections[c].reconnect \in {"idle", "done"}
    /\ nreconnects' = nreconnects + 1
    /\ connections' = [connections EXCEPT ![c].reconnect = "test"]
    /\ UNCHANGED <<ws_now, running, message_handlers, active_streams,
                   connection_attempts, dispatch, created, nsubscribes>>

reconnect_continues_mut_forever(connection) == running

\* the while condition of _reconnect_loop
reconnect_continues(connection) ==
    running /\ connection.reconnect_attempts < MaxReconnectAttempts

\* the while test: into asyncio.sleep, or out of the loop
ReconnectTest(c) ==
    /\ connections[c].reconnect = "test"
    /\ connections' = [connections EXCEPT
                          ![c].reconnect = IF reconnect_continues(connections[c])
                                           THEN "sleep" ELSE "done"]
    /\ UNCHANGED <<ws_now, running, message_handlers, active_streams,
                   connection_attempts, dispatch, created, nsubscribes, nreconnects>>

\* asyncio.sleep returns and the attempt is made: _create_connection on the
\* streams of the connection; `connects` is the outcome of websockets.connect
ReconnectAttempt(c, connects) ==
    /\ connections[c].reconnect = "sleep"
    /\ LET made == create_connection(connection_attempts, ws_now)
       IN  /\ connection_attempts' = made.attempts
           /\ created' = create_result(made, connects)
           /\ connections' =
                 IF ~made.refused /\ connects
                 THEN [connections EXCEPT ![c].websocket = "open",
                                          ![c].is_connected = TRUE,
                                          ![c].reconnect_attempts = 0,
                                          ![c].reader = "running",
                                          ![c].reconnect = "done"]
                 ELSE [connections EXCEPT ![c].reconnect_attempts = @ + 1,
                                          ![c].reconnect = "test"]
    /\ UNCHANGED <<ws_now, running, message_handlers, active_streams, dispatch,
                   nsubscribes, nreconnects>>

\* a direct call of _create_connection whose connection object is dropped
CreateConnection(connects) ==
    /\ LET made == create_connection(connection_attempts, ws_now)
       IN  /\ connection_attempts' = made.attempts
           /\ created' = create_result(made, connects)
    /\ UNCHANGED <<ws_now, running, connections, message_handlers, active_streams,
                   dispatch, nsubscribes, nreconnects>>

\* time passes
WsTick ==
    /\ ws_now + WsTickStep <= MaxWsTime
    /\ ws_now' = ws_now + WsTickStep
    /\ UNCHANGED <<running, connections, message_handlers, active_streams,
                   connection_attempts, dispatch, created, nsubscribes, nreconnects>>

\* the manager after __init__
InitWebSocket ==
    /\ ws_now = 0
    /\ running = FALSE
    /\ connections = <<>>
    /\ message_handlers = [s \in StreamNames |-> NoHandler]
    /\ active_streams = {}
    /\ connection_attempts = [t \in WsTimes |-> 0]
    /\ dispatch = NoDispatch
    /\ created = "None"
    /\ nsubscribes = 0
    /\ nreconnects = 0

(***************************************************************************)
(* WebSocketManager._format_stream_name.  A name is the sequence of the    *)
(* pieces the f-string joins.                                              *)
(***************************************************************************)
StreamTypes == {"TRADE", "KLINE", "TICKER", "DEPTH", "BOOK_TICKER", "AGGREGATE_TRADE"}

Symbols == {"BTCUSDT", "btcusdt", "EthUsdt"}

Intervals == {"None", "", "1m", "5m"}

NoDepthLevels == -1

DepthLevels == {NoDepthLevels, 0, 5, 20}

UpdateSpeeds == {"None", "", "@100ms", "@1000ms"}

\* str.lower()
lower(symbol) ==
    CASE symbol = "BTCUSDT" -> "btcusdt"
      [] symbol = "btcusdt" -> "btcusdt"
      [] symbol = "EthUsdt" -> "ethusdt"

\* str(int) as the f-string writes it
int_text(n) == CASE n = 0 -> "0" [] n = 5 -> "5" [] n = 20 -> "20"

\* `value or default`
or_default(value, default) == IF value \in {"None", ""} THEN default ELSE value

symbol_text_mut_asgiven(symbol) == symbol

\* symbol = config.symbol.lower()
symbol_text(symbol) == lower(symbol)

format_stream_name(config) ==
    LET symbol == symbol_text(config.symbol)
    IN  CASE config.stream_type = "TRADE" -> <<symbol, "@trade">>
          [] config.stream_type = "KLINE" ->
                <<symbol, "@kline_", or_default(config.interval, "1m")>>
          [] config.stream_type = "TICKER" -> <<symbol, "@ticker">>
          [] config.stream_type = "DEPTH" ->
                IF config.depth_levels \notin {NoDepthLevels, 0}
                THEN <<symbol, "@depth", int_text(config.depth_levels),
                       or_default(config.update_speed, "@100ms")>>
                ELSE <<symbol, "@depth", or_default(config.update_speed, "@100ms")>>
          [] config.stream_type = "BOOK_TICKER" -> <<symbol, "@bookTicker">>
          [] config.stream_type = "AGGREGATE_TRADE" -> <<symbol, "@aggTrade">>

StreamConfigs ==
    [symbol : Symbols, stream_type : StreamTypes, interval : Intervals,
     depth_levels : DepthLevels, update_speed : UpdateSpeeds]

NoStreamName == [stage |-> "none"]

InitStreamName == sname \in [stage : {"config"}, config : StreamConfigs, name : {<<>>}]

\* self._format_stream_name(config)
FormatStreamName ==
    /\ sname.stage = "config"
    /\ sname' = [sname EXCEPT !.stage = "formatted",
                              !.name = format_stream_name(sname.config)]

(***************************************************************************)
(* CryptoAgentsAdapter.execute_buy_order / execute_sell_order              *)
(* (binance_wallet_integration/crypto_agents_adapter.py).                  *)
(***************************************************************************)
Slugs == {"bitcoin", "ethereum", "solana"}

\* what order_manager.buy_market / sell_market gives: an OrderResult, or an
\* exception
MarketResults ==
    [success : {TRUE}, filled_quantity : {1, 2}, filled_price : {100, 200}]
    \cup [success : {FALSE}, error_message : {"Risk limits exceeded", "Order failed"}]
    \cup {[raises |-> "BinanceAPIError"]}

\* what the sqlite3 calls of _update_trades_database do
LedgerOutcomes == {"committed", "sqlite3.Error"}

ledger_error_caught_mut_propagates(exception) == FALSE

\* `except Exception` in _update_trades_database
ledger_error_caught(exception) == TRUE

\* _update_trades_database: the row written, and the exception that leaves it
update_trades_database(row, outcome) ==
    IF outcome = "committed"
    THEN [rows |-> <<row>>, raises |-> "None"]
    ELSE [rows |-> <<>>,
          raises |-> IF ledger_error_caught(outcome) THEN "None" ELSE outcome]

\* the body of execute_buy_order / execute_sell_order; action is 'buy' or 'sell'
execute_order(action, slug, has_order_manager, result, outcome) ==
    IF ~has_order_manager
    THEN [raises |-> "RuntimeError", message |-> [kind |-> "none"], ledger_calls |-> 0,
          rows |-> <<>>]
    ELSE IF "raises" \in DOMAIN result
    THEN [raises |-> "None", ledger_calls |-> 0, rows |-> <<>>,
          message |-> [kind |-> "Error executing", action |-> action, slug |-> slug,
                       error |-> result.raises]]
    ELSE IF result.success
    THEN LET written == update_trades_database(
                           [action |-> action, slug |-> slug,
                            amount |-> result.filled_quantity,
                            price |-> result.filled_price], outcome)
         IN  IF written.raises /= "None"
             THEN [raises |-> "None", ledger_calls |-> 1, rows |-> written.rows,
                   message |-> [kind |-> "Error executing", action |-> action,
                                slug |-> slug, error |-> written.raises]]
             ELSE [raises |-> "None", ledger_calls |-> 1, rows |-> written.rows,
                   message |-> [kind |-> "Executed", action |-> action, slug |-> slug,
                                filled_quantity |-> result.filled_quantity,
                                filled_price |-> result.filled_price]]
    ELSE [raises |-> "None", ledger_calls |-> 0, rows |-> <<>>,
          message |-> [kind |-> "Failed to execute", action |-> action, slug |-> slug,
                       error |-> result.error_message]]

NoAdapter == [stage |-> "none"]

InitAdapter ==
    adapter \in [stage : {"called"}, slug : Slugs, has_order_manager : BOOLEAN,
                 result : MarketResults, ledger : LedgerOutcomes,
                 returned : {[raises |-> "None"]}, action : {"none"}]

\* await adapter.execute_buy_order(slug, amount, price, remaining_cryptos)
ExecuteBuyOrder ==
    /\ adapter.stage = "called"
    /\ adapter' = [adapter EXCEPT
                      !.stage = "returned", !.action = "buy",
                      !.returned = execute_order("buy", adapter.slug,
                                                 adapter.has_order_manager,
                                                 adapter.result, adapter.ledger)]

\* await adapter.execute_sell_order(slug, amount, price, remaining_dollar)
ExecuteSellOrder ==
    /\ adapter.stage = "called"
    /\ adapter' = [adapter EXCEPT
                      !.stage = "returned", !.action = "sell",
                      !.returned = execute_order("sell", adapter.slug,
                                                 adapter.has_order_manager,
                                                 adapter.result, adapter.ledger)]

\* the components a specification does not exercise stay as constructed
IdleAux == sec = NoSecurity /\ sname = NoStreamName /\ adapter = NoAdapter

rlstate == <<rate_limits, is_banned, ban_until, attempts, pc, call, wake,
             denied_by, ncalls, window_granted, header_override>>

InitRL ==
    InitRateLimiter /\ InitOrderManager /\ environment = "testnet" /\ fmt = NoFormat
    /\ http = NoHttp /\ IdleAux /\ InitWebSocket

NextRL ==
    \/ \E p \in Callers, r \in Requests :
          RequestStart(p, r[1], r[2], AcquireDefaultTimeout) /\ UNCHANGED <<omvars, purevars, auxvars, wsvars>>
    \/ \E p \in Callers : AcquireTimeout(p) /\ UNCHANGED <<omvars, purevars, auxvars, wsvars>>
    \/ \E p \in Callers : AcquireLoop(p) /\ UNCHANGED <<omvars, purevars, auxvars, wsvars>>
    \/ \E p \in Callers : AcquireWake(p) /\ UNCHANGED <<omvars, purevars, auxvars, wsvars>>
    \/ \E p \in Callers : RequestDenied(p) /\ UNCHANGED <<omvars, purevars, auxvars, wsvars>>
    \/ \E p \in Callers, r \in Responses : Response(p, r) /\ UNCHANGED <<omvars, purevars, auxvars, wsvars>>
    \/ \E p \in Callers : TransportError(p) /\ UNCHANGED <<omvars, purevars, auxvars, wsvars>>
    \/ ResetLimits /\ UNCHANGED <<omvars, purevars, auxvars, wsvars>>
    \/ Tick /\ UNCHANGED <<omvars, purevars, auxvars, wsvars>>

SpecRL == InitRL /\ [][NextRL]_vars

(***************************************************************************)
(* The rate limiter with its scheduling: the clock advances, and a thread  *)
(* inside acquire keeps running (the loop test, the critical section and   *)
(* the return of time.sleep are not postponed for ever).  The clock of the *)
(* model stops at MaxTime, so a call starts only while the clock can still *)
(* pass the end of the call's timeout.                                     *)
(***************************************************************************)
\* the clock ticks up to the first one at or after the end of a timeout
TicksToDeadline(timeout) == TickStep * ((timeout + TickStep - 1) \div TickStep)

RequestStartInTime(p, weight, t, timeout) ==
    /\ now + TicksToDeadline(timeout) <= MaxTime
    /\ RequestStart(p, weight, t, timeout)

NextRLLive ==
    \/ \E p \in Callers, r \in Requests :
          RequestStartInTime(p, r[1], r[2], AcquireDefaultTimeout)
             /\ UNCHANGED <<omvars, purevars, auxvars, wsvars>>
    \/ \E p \in Callers : AcquireTimeout(p) /\ UNCHANGED <<omvars, purevars, auxvars, wsvars>>
    \/ \E p \in Callers : AcquireLoop(p) /\ UNCHANGED <<omvars, purevars, auxvars, wsvars>>
    \/ \E p \in Callers : AcquireWake(p) /\ UNCHANGED <<omvars, purevars, auxvars, wsvars>>
    \/ \E p \in Callers : RequestDenied(p) /\ UNCHANGED <<omvars, purevars, auxvars, wsvars>>
    \/ \E p \in Callers, r \in Responses : Response(p, r) /\ UNCHANGED <<omvars, purevars, auxvars, wsvars>>
    \/ \E p \in Callers : TransportError(p) /\ UNCHANGED <<omvars, purevars, auxvars, wsvars>>
    \/ ResetLimits /\ UNCHANGED <<omvars, purevars, auxvars, wsvars>>
    \/ Tick /\ UNCHANGED <<omvars, purevars, auxvars, wsvars>>

FairRL ==
    /\ WF_vars(Tick /\ UNCHANGED <<omvars, purevars, auxvars, wsvars>>)
    /\ \A p \in Callers :
          /\ WF_vars(AcquireLoop(p) /\ UNCHANGED <<omvars, purevars, auxvars, wsvars>>)
          /\ WF_vars(AcquireTimeout(p) /\ UNCHANGED <<omvars, purevars, auxvars, wsvars>>)
          /\ WF_vars(AcquireWake(p) /\ UNCHANGED <<omvars, purevars, auxvars, wsvars>>)

SpecRLLive == InitRL /\ [][NextRLLive]_vars /\ FairRL

InitOM ==
    InitRateLimiter /\ InitOrderManager /\ environment \in Environments
    /\ fmt = NoFormat /\ http = NoHttp /\ IdleAux /\ InitWebSocket

NextOM ==
    \/ \E k \in Tasks, r \in OrderRequests, d \in BOOLEAN, g \in BOOLEAN :
          PlaceOrder(k, r, d, g) /\ UNCHANGED <<rlvars, purevars, auxvars, wsvars>>
    \/ \E k \in Tasks, e \in CallErrors : RiskPriceFailed(k, e) /\ UNCHANGED <<rlvars, purevars, auxvars, wsvars>>
    \/ \E k \in Tasks, g \in BOOLEAN : \E price \in MarketPrices(om[k].request.symbol) :
          RiskPriceArrived(k, price, g) /\ UNCHANGED <<rlvars, purevars, auxvars, wsvars>>
    \/ \E k \in Tasks, e \in CallErrors : OrderFailed(k, e) /\ UNCHANGED <<rlvars, purevars, auxvars, wsvars>>
    \/ \E k \in Tasks, g \in BOOLEAN : TestOrderAccepted(k, g) /\ UNCHANGED <<rlvars, purevars, auxvars, wsvars>>
    \/ \E k \in Tasks, resp \in OrderResponses :
          OrderAccepted(k, resp) /\ UNCHANGED <<rlvars, purevars, auxvars, wsvars>>
    \/ \E k \in Tasks, e \in CallErrors : FillPriceFailed(k, e) /\ UNCHANGED <<rlvars, purevars, auxvars, wsvars>>
    \/ \E k \in Tasks : \E price \in MarketPrices(om[k].request.symbol) :
          FillPriceArrived(k, price) /\ UNCHANGED <<rlvars, purevars, auxvars, wsvars>>
    \/ \E k \in Tasks : OrderDone(k) /\ UNCHANGED <<rlvars, purevars, auxvars, wsvars>>
    \/ OrderTick /\ UNCHANGED <<rlstate, omvars, purevars, auxvars, wsvars>>

SpecOM == InitOM /\ [][NextOM]_vars

InitFmt ==
    InitRateLimiter /\ InitOrderManager /\ environment = "testnet" /\ InitFormat
    /\ http = NoHttp /\ IdleAux /\ InitWebSocket

NextFmt ==
    \/ FormatQuantity /\ UNCHANGED <<rlvars, omvars, http, auxvars, wsvars>>
    \/ FormatPrice /\ UNCHANGED <<rlvars, omvars, http, auxvars, wsvars>>

SpecFmt == InitFmt /\ [][NextFmt]_vars

InitResponse ==
    InitRateLimiter /\ InitOrderManager /\ environment = "testnet" /\ fmt = NoFormat
    /\ InitHttp /\ IdleAux /\ InitWebSocket

NextResponse == HandleResponse /\ UNCHANGED <<omvars, fmt, auxvars, wsvars>>

SpecResponse == InitResponse /\ [][NextResponse]_vars

(***************************************************************************)
(* The other components, each under its own specification.                 *)
(***************************************************************************)
InitBase ==
    InitRateLimiter /\ InitOrderManager /\ environment = "testnet" /\ fmt = NoFormat
    /\ http = NoHttp

InitSec ==
    InitBase /\ InitWebSocket /\ InitSecurity /\ sname = NoStreamName
    /\ adapter = NoAdapter

NextSec ==
    \/ Construct /\ UNCHANGED <<rlvars, omvars, purevars, sname, adapter, wsvars>>
    \/ \E params \in ParamDicts :
          GenerateSignature(params)
             /\ UNCHANGED <<rlvars, omvars, purevars, sname, adapter, wsvars>>

SpecSec == InitSec /\ [][NextSec]_vars

\* signed requests of a client: one SecurityManager, any number of requests
NextSign ==
    \/ Construct /\ UNCHANGED <<rlvars, omvars, purevars, sname, adapter, wsvars>>
    \/ \E method \in {"GET", "POST", "DELETE"}, params \in ParamDicts :
          SignedRequest(method, params)
             /\ UNCHANGED <<rlvars, omvars, purevars, sname, adapter, wsvars>>

SpecSign == InitSec /\ [][NextSign]_vars

InitStream ==
    InitBase /\ InitWebSocket /\ InitStreamName /\ sec = NoSecurity
    /\ adapter = NoAdapter

NextStream ==
    FormatStreamName /\ UNCHANGED <<rlvars, omvars, purevars, sec, adapter, wsvars>>

SpecStream == InitStream /\ [][NextStream]_vars

InitAdapterCall ==
    InitBase /\ InitWebSocket /\ InitAdapter /\ sec = NoSecurity
    /\ sname = NoStreamName

NextAdapter ==
    \/ ExecuteBuyOrder /\ UNCHANGED <<rlvars, omvars, purevars, sec, sname, wsvars>>
    \/ ExecuteSellOrder /\ UNCHANGED <<rlvars, omvars, purevars, sec, sname, wsvars>>

SpecAdapter == InitAdapterCall /\ [][NextAdapter]_vars

InitWS == InitBase /\ IdleAux /\ InitWebSocket

wsrest == <<rlvars, omvars, purevars, auxvars>>

NextWS ==
    \/ Start /\ UNCHANGED wsrest
    \/ Stop /\ UNCHANGED wsrest
    \/ \E s \in StreamNames, h \in Handlers \cup {NoHandler}, connects \in BOOLEAN :
          Subscribe(s, h, connects) /\ UNCHANGED wsrest
    \/ \E s \in StreamNames : Unsubscribe(s) /\ UNCHANGED wsrest
    \/ \E c \in Conns, m \in Messages, r \in HandlerResults :
          Message(c, m, r) /\ UNCHANGED wsrest
    \/ \E c \in Conns, how \in {"closed", "error"} :
          ReadLoopFails(c, how) /\ UNCHANGED wsrest
    \/ \E c \in Conns : ReadLoopClosedLocally(c) /\ UNCHANGED wsrest
    \/ \E c \in Conns : ReconnectStart(c) /\ UNCHANGED wsrest
    \/ \E c \in Conns : ReconnectTest(c) /\ UNCHANGED wsrest
    \/ \E c \in Conns, connects \in BOOLEAN :
          ReconnectAttempt(c, connects) /\ UNCHANGED wsrest

SpecWS == InitWS /\ [][NextWS]_vars

\* a reconnect loop that is running keeps running: asyncio.sleep returns, and
\* websockets.connect returns or raises within its opening timeout
FairWS ==
    \A c \in 1..MaxSubscribeCalls :
       /\ WF_vars(c \in Conns /\ ReconnectTest(c) /\ UNCHANGED wsrest)
       /\ WF_vars(c \in Conns /\ (\E connects \in BOOLEAN : ReconnectAttempt(c, connects))
                  /\ UNCHANGED wsrest)

SpecWSLive == InitWS /\ [][NextWS]_vars /\ FairWS

NextWSRate ==
    \/ \E connects \in BOOLEAN : CreateConnection(connects) /\ UNCHANGED wsrest
    \/ WsTick /\ UNCHANGED wsrest

SpecWSRate == InitWS /\ [][NextWSRate]_vars

(***************************************************************************)
(* The order manager late in a trading day: fifteen market orders of 60    *)
(* SOL, admitted and filled at 50 USD, are in the history and in the       *)
(* accumulator (45000 of the 50000 USD a day allows).  SpecOMDay lets the  *)
(* two tasks call place_order concurrently; in SpecOMSeq a call is made    *)
(* only when no other call is in progress.                                 *)
(***************************************************************************)
earlier_fill == [filled_quantity |-> 6000, filled_price |-> 5000]

earlier_fills == [i \in 1..15 |-> earlier_fill]

InitOMDay ==
    /\ InitRateLimiter
    /\ environment \in Environments
    /\ daily_volume_usd =
          Len(earlier_fills) * earlier_fill.filled_quantity * earlier_fill.filled_price
    /\ daily_reset_time = 0
    /\ order_history = earlier_fills
    /\ om = [k \in Tasks |-> IdleTask]
    /\ norders = 0
    /\ fmt = NoFormat /\ http = NoHttp /\ IdleAux /\ InitWebSocket

SpecOMDay == InitOMDay /\ [][NextOM]_vars

\* no place_order call is in progress
AllIdle == \A k \in Tasks : om[k].pc = "idle"

NextOMSeq ==
    \/ \E k \in Tasks, r \in OrderRequests, d \in BOOLEAN, g \in BOOLEAN :
          AllIdle /\ PlaceOrder(k, r, d, g)
             /\ UNCHANGED <<rlvars, purevars, auxvars, wsvars>>
    \/ \E k \in Tasks, e \in CallErrors :
          RiskPriceFailed(k, e) /\ UNCHANGED <<rlvars, purevars, auxvars, wsvars>>
    \/ \E k \in Tasks, g \in BOOLEAN : \E price \in MarketPrices(om[k].request.symbol) :
          RiskPriceArrived(k, price, g) /\ UNCHANGED <<rlvars, purevars, auxvars, wsvars>>
    \/ \E k \in Tasks, e \in CallErrors :
          OrderFailed(k, e) /\ UNCHANGED <<rlvars, purevars, auxvars, wsvars>>
    \/ \E k \in Tasks, g \in BOOLEAN :
          TestOrderAccepted(k, g) /\ UNCHANGED <<rlvars, purevars, auxvars, wsvars>>
    \/ \E k \in Tasks, resp \in OrderResponses :
          OrderAccepted(k, resp) /\ UNCHANGED <<rlvars, purevars, auxvars, wsvars>>
    \/ \E k \in Tasks, e \in CallErrors :
          FillPriceFailed(k, e) /\ UNCHANGED <<rlvars, purevars, auxvars, wsvars>>
    \/ \E k \in Tasks : \E price \in MarketPrices(om[k].request.symbol) :
          FillPriceArrived(k, price) /\ UNCHANGED <<rlvars, purevars, auxvars, wsvars>>
    \/ \E k \in Tasks : OrderDone(k) /\ UNCHANGED <<rlvars, purevars, auxvars, wsvars>>
    \/ OrderTick /\ UNCHANGED <<rlstate, omvars, purevars, auxvars, wsvars>>

SpecOMSeq == InitOMDay /\ [][NextOMSeq]_vars

(***************************************************************************)
(* place_order from its entry to the formatted quantity, as a function of  *)
(* the request and of the price the risk check fetches: a market order is  *)
(* given together with a quoted price, and the validation, the risk check  *)
(* and _format_quantity are applied to it.                                 *)
(***************************************************************************)
\* the prices quoted to the risk check
QuotedPrices(symbol) ==
    IF symbol = "SOLUSDT" THEN MarketPrices(symbol) \cup {7500}
    ELSE MarketPrices(symbol)

MarketOrders ==
    [symbol : DOMAIN symbol_info, order_type : {"MARKET"},
     quantity : 0..MaxFmtValue, price : {0}]

InitNormalize ==
    /\ fmt \in [op : {"order"}, request : MarketOrders,
                current_price : UNION {QuotedPrices(s) : s \in DOMAIN symbol_info},
                rejected : {"none"}, result : {0}]
    /\ fmt.current_price \in QuotedPrices(fmt.request.symbol)

\* _validate_order_request, _check_risk_limits, _format_quantity
NormalizeOrder ==
    /\ fmt.op = "order"
    /\ LET r == fmt.request
           error == IF validation_fails(r) THEN "validation"
                    ELSE risk_check_error(r, fmt.current_price)
       IN  fmt' = [fmt EXCEPT !.op = "normalized",
                              !.rejected = error,
                              !.result = IF error = "none"
                                         THEN _format_quantity(r.symbol, r.quantity)
                                         ELSE 0]

InitNorm ==
    InitRateLimiter /\ InitOrderManager /\ environment = "testnet" /\ InitNormalize
    /\ http = NoHttp /\ IdleAux /\ InitWebSocket

NextNorm == NormalizeOrder /\ UNCHANGED <<rlvars, omvars, http, auxvars, wsvars>>

SpecNorm == InitNorm /\ [][NextNorm]_vars

(***************************************************************************)
(* The tasks of one client on one asyncio event loop: REST calls through   *)
(* _request and the read loops of the WebSocketManager.  One task runs at  *)
(* a time, from one await to the next.  _request calls                     *)
(* self.rate_limiter.acquire(...) without await, and acquire waits with    *)
(* time.sleep: from the call of acquire to its return the calling task     *)
(* keeps the event-loop thread, and every other task resumes only after.   *)
(***************************************************************************)
\* the task p is between the call of acquire and the next await of _request
holds_event_loop(p) == pc[p] \in {"acquire", "sleep", "denied"}

event_loop_free == \A p \in Callers : ~holds_event_loop(p)

\* the responses without usage headers
PlainResponses == {r \in Responses : r.used_weight = NoHeader /\ r.order_count = NoHeader}

\* the task q resumes from `await self.session.request(...)`
ResponseStep(q) ==
    /\ event_loop_free
    /\ \E r \in PlainResponses : Response(q, r)
    /\ UNCHANGED <<omvars, purevars, auxvars, wsvars>>

\* the read loop of connection c resumes from `async for message`
ReadLoopStep(c) ==
    /\ event_loop_free
    /\ \E m \in Messages, r \in HandlerResults : Message(c, m, r)
    /\ UNCHANGED wsrest

NextLoop ==
    \/ \E p \in Callers, r \in {<<600, "request_weight">>} :
          event_loop_free /\ RequestStart(p, r[1], r[2], AcquireDefaultTimeout)
             /\ UNCHANGED <<omvars, purevars, auxvars, wsvars>>
    \/ \E p \in Callers : AcquireTimeout(p) /\ UNCHANGED <<omvars, purevars, auxvars, wsvars>>
    \/ \E p \in Callers : AcquireLoop(p) /\ UNCHANGED <<omvars, purevars, auxvars, wsvars>>
    \/ \E p \in Callers : AcquireWake(p) /\ UNCHANGED <<omvars, purevars, auxvars, wsvars>>
    \/ \E p \in Callers : RequestDenied(p) /\ UNCHANGED <<omvars, purevars, auxvars, wsvars>>
    \/ \E q \in Callers : ResponseStep(q)
    \/ Tick /\ UNCHANGED <<omvars, purevars, auxvars, wsvars>>
    \/ event_loop_free /\ Start /\ UNCHANGED wsrest
    \/ \E s \in {"btcusdt@trade"}, h \in Handlers, connects \in BOOLEAN :
          event_loop_free /\ Subscribe(s, h, connects) /\ UNCHANGED wsrest
    \/ \E c \in Conns : ReadLoopStep(c)

SpecLoop == InitRL /\ [][NextLoop]_vars

(***************************************************************************)
(* Claims about the rate limiter, checked under SpecRL.                    *)
(***************************************************************************)

\* C1: within one window of a bucket, with no header override and no
\* reset_limits in between, the weights of the granted acquire calls sum to at
\* most the bucket's limit, under every interleaving of the callers.
C1_GrantedWithinLimit ==
    \A t \in RateLimitType : ~header_override[t] => window_granted[t] <= Limit(t)

\* a bucket filled to its limit by grants alone, and a further acquire refused
C1_Witness ==
    \E t \in RateLimitType, p \in Callers :
        /\ ~header_override[t]
        /\ window_granted[t] = Limit(t)
        /\ pc[p] = "sleep" /\ call[p].type = t /\ denied_by[p] = "limit"

\* C2: while the manager is banned (ban set, now before ban_until) no turn of
\* acquire grants: the caller is refused and no bucket's usage changes,
\* whatever headroom the bucket has.
C2_NoGrantWhileBanned ==
    [][BanActive =>
         \A p \in Callers :
            (pc[p] = "acquire" /\ pc'[p] # "acquire")
               => (pc'[p] \in {"sleep", "denied"} /\ rate_limits' = rate_limits)]_vars

\* a caller refused because of the ban although its bucket has headroom
C2_Witness ==
    \E p \in Callers :
        /\ BanActive
        /\ pc[p] = "sleep" /\ denied_by[p] = "ban"
        /\ ~OverLimit(call[p].weight, call[p].type)

(***************************************************************************)
(* Claims about the order manager (SpecOM) and the formatting (SpecFmt)    *)
(***************************************************************************)
OrderEndpoints == {TestOrderEndpoint, OrderEndpoint}

\* the order requests (test or real) sent for a place_order call
OrderRequestsSent(t) == {i \in DOMAIN t.sent : t.sent[i] \in OrderEndpoints}

\* the risk check of the call has got its price
Priced(t) == t.current_price > 0

Notional(t) == t.request.quantity * t.current_price

SizeViolation(t) ==
    Priced(t) /\ (Notional(t) < min_order_size_usd \/ Notional(t) > max_order_size_usd)

\* C3: place_order never raises.  Whatever goes wrong (validation, risk
\* limit, rate limit denial, API error, transport error, an unparsable
\* response) the call returns, and the result it returns has success = FALSE
\* together with an error message exactly when something went wrong.
C3_NeverRaises ==
    \A k \in Tasks :
        /\ om[k].pc # "raised"
        /\ om[k].pc = "returned" =>
              (om[k].result.success <=> om[k].result.error = "none")

C3_Witness ==
    /\ om["a"].pc = "returned" /\ om["a"].result.error = "transport"
    /\ ~om["a"].result.success
    /\ om["b"].pc = "returned" /\ om["b"].result.error = "rate_limit"

\* C4 as stated: an order whose notional is below the configured minimum or
\* above the configured maximum order size is rejected with no request of any
\* kind issued to the exchange for it.
C4_RejectedBeforeAnyNetworkCall ==
    \A k \in Tasks :
        SizeViolation(om[k]) =>
            /\ om[k].pc = "returned" /\ ~om[k].result.success
            /\ om[k].calls = <<>> /\ om[k].sent = <<>>

\* C4 amended: an order whose notional is below the configured minimum or
\* above the configured maximum order size is rejected (success = FALSE)
\* before any order request, test or real, is sent; the one request issued for
\* it is the symbol price lookup the risk check computes the notional from.
C4_RejectedBeforeAnyOrderRequest ==
    \A k \in Tasks :
        SizeViolation(om[k]) =>
            /\ om[k].pc = "returned" /\ ~om[k].result.success
            /\ om[k].calls = <<"get_symbol_price">>
            /\ om[k].sent = <<PriceEndpoint>>

C4_Witness ==
    /\ SizeViolation(om["a"]) /\ Notional(om["a"]) < min_order_size_usd
    /\ SizeViolation(om["b"]) /\ Notional(om["b"]) > max_order_size_usd
    /\ om["a"].pc = "returned" /\ om["b"].pc = "returned"

\* C5 as stated: an order whose notional is below the MIN_NOTIONAL filter
\* value of its symbol is rejected by the risk check (success = FALSE, no order
\* request sent), also when the notional satisfies the configured minimum.
C5_ExchangeMinNotionalRejected ==
    \A k \in Tasks :
        ( /\ Priced(om[k])
          /\ symbol_info[om[k].request.symbol].has_min_notional
          /\ Notional(om[k]) < symbol_info[om[k].request.symbol].minNotional )
        => /\ om[k].pc = "returned" /\ ~om[k].result.success
           /\ OrderRequestsSent(om[k]) = {}

\* C6 as stated: _format_quantity returns the largest multiple of the step
\* size that does not exceed the quantity, for every positive quantity and
\* every step size.
C6_LargestMultipleOfStep ==
    fmt.op = "_format_quantity" => fmt.result = (fmt.value \div fmt.step) * fmt.step

C8_AtMostOneOrderRequest ==
    \A k \in Tasks :
        /\ Cardinality(OrderRequestsSent(om[k])) <= 1
        /\ Cardinality({i \in DOMAIN om[k].calls :
                           om[k].calls[i] \in {"place_order", "place_test_order"}}) <= 1
        /\ (om[k].pc = "returned" /\ om[k].result.success /\ ~om[k].dry_run)
              => Cardinality(OrderRequestsSent(om[k])) = 1

C8_Witness ==
    /\ om["a"].pc = "returned" /\ om["a"].result.error \in CallErrors
    /\ Cardinality(OrderRequestsSent(om["a"])) = 1
    /\ om["b"].pc = "returned" /\ om["b"].result.success /\ ~om["b"].dry_run
    /\ Cardinality(OrderRequestsSent(om["b"])) = 1

\* the requests C9 speaks of: unknown symbol, quantity <= 0 or outside
\* [minQty, maxQty], no positive price for a limit-style order
C9_Invalid(r) ==
    \/ r.symbol \notin DOMAIN symbol_info
    \/ r.quantity <= 0
    \/ r.quantity < symbol_info[r.symbol].minQty
    \/ r.quantity > symbol_info[r.symbol].maxQty
    \/ (r.order_type \in {"LIMIT", "STOP_LOSS_LIMIT", "TAKE_PROFIT_LIMIT"}
          /\ r.price <= 0)

\* C9: a request that fails validation against the cached symbol rules is
\* answered with success = FALSE and no client call: no price fetch and no
\* order submission happen for it.
C9_InvalidRequestNoClientCall ==
    \A k \in Tasks :
        (om[k].pc # "idle" /\ C9_Invalid(om[k].request)) =>
            /\ om[k].pc = "returned" /\ ~om[k].result.success
            /\ om[k].calls = <<>> /\ om[k].sent = <<>>

C9_Witness ==
    /\ om["a"].pc = "returned" /\ om["a"].request.symbol \notin DOMAIN symbol_info
    /\ om["a"].calls = <<>>
    /\ om["b"].pc = "returned" /\ om["b"].request.symbol \in DOMAIN symbol_info
    /\ om["b"].request.quantity > 0
    /\ om["b"].request.quantity < symbol_info[om["b"].request.symbol].minQty
    /\ om["b"].calls = <<>>

\* C10 as stated: a dry-run call makes no client or network call of any kind.
C10_DryRunNoClientCall ==
    \A k \in Tasks :
        om[k].dry_run => (om[k].calls = <<>> /\ om[k].sent = <<>>)

\* C10 amended: a dry-run call sends no order request, test or real; the
\* client calls it makes are symbol price lookups only (one for the risk
\* check, one more for the fill price of an order without a price), and when it
\* succeeds the result is synthetic: the formatted quantity as filled.
C10_DryRunNoOrderRequest ==
    \A k \in Tasks :
        om[k].dry_run =>
            /\ \A i \in DOMAIN om[k].calls : om[k].calls[i] = "get_symbol_price"
            /\ \A i \in DOMAIN om[k].sent : om[k].sent[i] = PriceEndpoint
            /\ Len(om[k].calls) <= 2
            /\ (om[k].pc = "returned" /\ om[k].result.success)
                  => /\ om[k].result.filled_quantity = om[k].fq
                     /\ Len(om[k].sent) >= 1

C10_Witness ==
    /\ om["a"].dry_run /\ om["a"].pc = "returned" /\ om["a"].result.success
    /\ om["a"].sent = <<PriceEndpoint, PriceEndpoint>>
    /\ om["b"].dry_run /\ om["b"].pc = "returned" /\ om["b"].result.success
    /\ om["b"].sent = <<PriceEndpoint>>

(***************************************************************************)
(* Claims about bans, windows and response headers (SpecRL)                *)
(***************************************************************************)
\* C11 as stated: while the manager is banned an acquire call fails fast, so
\* no caller is ever in a backoff sleep because the ban refused it.
C11_NoBackoffSleepWhileBanned ==
    \A p \in Callers : ~(pc[p] = "sleep" /\ denied_by[p] = "ban")

\* C12 as stated: a 418 response that carries retry-after = D leaves the
\* manager banned until D seconds after the response.
C12_TeapotBanLastsRetryAfter ==
    [][\A p \in Callers : \A r \in Responses :
          (r.status = 418 /\ r.retry_after # NoHeader /\ Response(p, r))
          => (is_banned' /\ ban_until' = now + r.retry_after)]_vars

\* C13 as stated: usage resets to zero at the window boundary, so an acquire
\* of a weight within the limit is not refused for lack of capacity once the
\* bucket's window boundary has passed (the usage being what acquire booked,
\* not a counter taken from a response header).
C13_GrantedAfterWindowBoundary ==
    [][\A p \in Callers :
          (pc[p] = "acquire" /\ pc'[p] = "sleep" /\ denied_by'[p] = "limit"
             /\ call[p].weight <= Limit(call[p].type)
             /\ ~header_override[call[p].type])
          => ~WindowExpired(rate_limits[call[p].type])]_vars

\* C14: a call whose acquire was not granted ends with the rate limit error
\* and never becomes a sent request; a request is sent only out of an acquire
\* that check_limits has just granted and that has booked the call's weight
\* in its bucket.
C14_SentOnlyAfterGrantedAcquire ==
    [][\A p \in Callers :
          /\ (pc[p] = "denied" /\ pc'[p] # "denied") => pc'[p] = "idle"
          /\ (pc'[p] = "granted" /\ pc[p] # "granted") =>
                /\ pc[p] = "acquire"
                /\ check_limits(call[p].weight, call[p].type)
                /\ rate_limits'[call[p].type] =
                     add_usage(rate_limits[call[p].type], call[p].type, call[p].weight)]_vars

C14_Witness ==
    \E p, q \in Callers : pc[p] = "denied" /\ pc[q] = "granted"

\* C15: the step that handles a response leaves the request weight bucket
\* at the used-weight value of the response and the orders bucket at its
\* order-count value, whatever the local value was and whether or not the
\* value exceeds the limit; a bucket the response has no header for keeps its
\* usage, and no window start is touched.
C15_ServerCountersWin ==
    [][\A p \in Callers : \A r \in Responses :
          Response(p, r) =>
            \A t \in RateLimitType :
               LET v == IF t = "request_weight" THEN r.used_weight
                        ELSE IF t = "orders" THEN r.order_count
                        ELSE NoHeader
               IN  /\ rate_limits'[t].current_usage =
                        IF v # NoHeader THEN v ELSE rate_limits[t].current_usage
                   /\ rate_limits'[t].reset_time = rate_limits[t].reset_time]_vars

\* the server value is below what acquire had booked (600), or above the limit
C15_Witness ==
    /\ header_override["request_weight"]
    /\ \/ /\ rate_limits["request_weight"].current_usage = 50
          /\ window_granted["request_weight"] >= 600
       \/ rate_limits["request_weight"].current_usage > Limit("request_weight")

\* C16: the step that handles a 429 response carrying retry-after = D leaves
\* the manager banned until D seconds after the response; no acquire is granted
\* while the ban lasts; and once the ban has ended an acquire that finds room in
\* its bucket is granted.
C16_RetryAfterHonoured ==
    [][/\ \A p \in Callers : \A r \in Responses :
             (r.status = 429 /\ r.retry_after # NoHeader /\ Response(p, r))
             => (is_banned' /\ ban_until' = now + r.retry_after)
       /\ \A p \in Callers :
             (pc[p] = "acquire" /\ pc'[p] = "granted")
             => ~(is_banned /\ now < ban_until)
       /\ \A p \in Callers :
             ( /\ is_banned /\ now >= ban_until
               /\ ~OverLimit(call[p].weight, call[p].type)
               /\ AcquireLoop(p) )
             => pc'[p] = "granted"]_vars

\* a request granted after a retry-after ban of 20 s has ended
C16_Witness ==
    /\ ban_until = 20 /\ ~is_banned /\ now >= 20
    /\ \E p \in Callers : pc[p] = "granted" /\ call[p].start_time >= 20

\* C17: every acquire call terminates: a caller inside acquire (in the loop
\* or in its backoff sleep) eventually leaves it, granted or, with its timeout
\* elapsed, denied, whatever the bucket and ban state are.
C17_AcquireTerminates ==
    \A p \in Callers :
        (pc[p] \in {"acquire", "sleep"}) ~> (pc[p] \in {"granted", "denied"})

\* a call denied at the end of its timeout under a ban that outlasts it
C17_Witness ==
    \E p \in Callers :
        /\ pc[p] = "denied" /\ denied_by[p] = "ban" /\ BanActive
        /\ now - call[p].start_time >= call[p].timeout

(***************************************************************************)
(* Claims about the daily volume window and the price format               *)
(***************************************************************************)
\* the multiple of step nearest to v, a tie going to the even multiple
NearestMultiple(v, step) ==
    LET low == v \div step
        rest == v % step
    IN  IF 2 * rest > step \/ (2 * rest = step /\ low % 2 = 1)
        THEN (low + 1) * step
        ELSE low * step

\* C20 as stated: _format_price returns the multiple of the tick size nearest
\* to the price, ties resolved by round-half-to-even, for every positive price
\* and every tick size.
C20_NearestMultipleOfTick ==
    fmt.op = "_format_price" => fmt.result = NearestMultiple(fmt.value, fmt.step)

\* C19: the daily volume accumulator is set back (to zero, its window start
\* to the current time) only when more than 86400 s have passed since the
\* window start, and the risk check of an order that passes the order size
\* tests does set it back whenever more than 86400 s have passed.
C19_DailyWindowReset ==
    [][/\ (daily_reset_time' # daily_reset_time \/ daily_volume_usd' < daily_volume_usd)
          => /\ now - daily_reset_time > 86400
             /\ daily_volume_usd' = 0
             /\ daily_reset_time' = now
       /\ \A k \in Tasks : \A price \in MarketPrices(om[k].request.symbol) :
             \A g \in BOOLEAN :
                ( /\ RiskPriceArrived(k, price, g)
                  /\ om[k].request.quantity * price >= min_order_size_usd
                  /\ om[k].request.quantity * price <= max_order_size_usd
                  /\ now - daily_reset_time > 86400 )
                => (daily_volume_usd' = 0 /\ daily_reset_time' = now)]_vars

\* an accumulator that held the volume of a filled order has been set back
C19_Witness ==
    /\ Len(order_history) >= 1 /\ order_history[1].filled_quantity > 0
    /\ daily_volume_usd = 0
    /\ daily_reset_time > 86400

path_given(private_key_path) == private_key_path \notin {"None", ""}

\* C21: every SecurityManager instance has exactly one signing mode: ed25519
\* with a loaded private key and no secret, or hmac with a validated secret
\* and no private key; the private-key path wins when both are supplied, and
\* no later operation changes the mode or the key material.
C21_OneSigningMode ==
    /\ [](sec.stage = "constructed" =>
            /\ \/ /\ sec.inst.auth_method = "ed25519"
                  /\ sec.inst.private_key = [type |-> "Ed25519PrivateKey"]
                  /\ sec.inst.api_secret = NoneValue
               \/ /\ sec.inst.auth_method = "hmac"
                  /\ sec.inst.api_secret.type = "str"
                  /\ validate_api_secret(sec.api_secret).error = ""
                  /\ sec.inst.private_key = NoneValue
            /\ sec.inst.auth_method = "ed25519" <=> path_given(sec.private_key_path))
    /\ [][sec.stage = "constructed" => sec'.inst = sec.inst]_vars

C21_Witness ==
    /\ sec.stage = "constructed"
    /\ sec.inst.auth_method = "ed25519"
    /\ truthy(sec.api_secret)
    /\ sec.signature /= NoSignature

\* the credential faults named by the claim, on the constructor arguments
empty_credential(value) == value.type = "str" /\ value.len = 0

short_credential(value, marked) ==
    /\ value.type = "str"
    /\ \/ ~marked /\ value.len < MinKeyLength
       \/ marked /\ value.len < MinTestKeyLength

\* C22: construction fails whenever the API key or the secret is empty, a
\* key or secret without test marker is shorter than 32 characters, one
\* with a test marker is shorter than 8, neither a secret nor a private-key
\* path is given, or the private-key file is missing, unreadable or not an
\* Ed25519 key.
C22_BadCredentialsFailConstruction ==
    (\/ ~truthy(sec.api_key)
     \/ short_credential(sec.api_key, is_test_key(sec.api_key))
     \/ empty_credential(sec.api_secret)
     \/ short_credential(sec.api_secret, is_test_secret(sec.api_secret))
     \/ ~truthy(sec.api_secret) /\ ~path_given(sec.private_key_path)
     \/ sec.private_key_path \in {"missing", "unreadable", "not_pem", "encrypted_pem",
                                  "rsa_pem"})
    => sec.stage /= "constructed"

same_items(a, b) == {a[i] : i \in 1..Len(a)} = {b[i] : i \in 1..Len(b)}

\* C23: HMAC signing is deterministic and canonical: with the same secret,
\* the same parameters inserted in any order give the same signature, and
\* the signature is a 64-character lowercase hex string.
C23_HmacSignatureCanonical ==
    (sec.stage = "constructed" /\ sec.inst.auth_method = "hmac"
       /\ sec.signature /= NoSignature)
    => /\ \A other \in ParamDicts :
             same_items(other, sec.params)
                => generate_signature(sec.inst, other).text = sec.signature.text
       /\ Len(sec.signature.text) = 64
       /\ \A i \in 1..Len(sec.signature.text) :
             sec.signature.text[i] \in {HexDigits[d] : d \in 1..16}

C23_Witness ==
    /\ sec.stage = "constructed"
    /\ sec.inst.auth_method = "hmac"
    /\ sec.signature /= NoSignature
    /\ Len(sec.params) = 3
    /\ sec.params /= sorted_items(sec.params)

(***************************************************************************)
(* Claims about the WebSocket manager, checked under SpecWS, SpecWSLive    *)
(* and SpecWSRate.                                                         *)
(***************************************************************************)
\* C24: the reconnect loop of a connection terminates; after
\* max_reconnect_attempts consecutive failed attempts it stops for good: the
\* connection stays disconnected and no further attempt is made.
C24_ReconnectLoopTerminates ==
    /\ \A c \in 1..MaxSubscribeCalls :
          (c \in Conns /\ connections[c].reconnect \in {"test", "sleep"})
             ~> (c \in Conns /\ connections[c].reconnect = "done")
    /\ [](\A c \in Conns :
             connections[c].reconnect_attempts >= MaxReconnectAttempts
                => /\ connections[c].reconnect /= "sleep"
                   /\ ~connections[c].is_connected
                   /\ connections[c].websocket = "closed")
    /\ [][\A c \in Conns :
             connections[c].reconnect_attempts >= MaxReconnectAttempts
                => /\ connections'[c].reconnect_attempts = connections[c].reconnect_attempts
                   /\ connections'[c].websocket = "closed"
                   /\ ~(\E connects \in BOOLEAN : ReconnectAttempt(c, connects))]_vars

C24_Witness ==
    \E c \in Conns :
       /\ connections[c].reconnect_attempts = MaxReconnectAttempts
       /\ connections[c].reconnect = "done"
       /\ ~connections[c].is_connected

\* C25: whenever the read loop of a connection ends by an unexpected close
\* or a read error while the manager is running, a reconnect loop is started
\* for that connection (unless the manager is stopped or the stream
\* unsubscribed first).
C25_ReadLoopEndStartsReconnect ==
    \A c \in 1..MaxSubscribeCalls :
       (/\ c \in Conns
        /\ running
        /\ connections[c].registered
        /\ connections[c].reader \in {"closed", "error"}
        /\ connections[c].reconnect = "idle")
          ~> (c \in Conns /\ (\/ connections[c].reconnect /= "idle"
                              \/ ~running
                              \/ ~connections[c].registered
                              \/ connections[c].streams = {}))

\* C26: for each inbound message exactly the handler registered for the
\* message's stream identifier is invoked, once; a message that is not
\* valid JSON, has no stream identifier or no registered handler, or whose
\* handler raises, lets no exception out of _handle_message and leaves the
\* read loop running.
C26_DispatchedOnceAndNeverFatal ==
    [][\A c \in Conns, m \in Messages, r \in HandlerResults :
          (running /\ Message(c, m, r))
             => /\ dispatch'.invoked =
                      IF /\ m.json = "object"
                         /\ m.stream \in StreamNames
                         /\ message_handlers[m.stream] /= NoHandler
                      THEN <<m.stream>> ELSE <<>>
                /\ dispatch'.raised = "None"
                /\ connections'[c].reader = "running"
                /\ connections'[c].websocket = "open"]_vars

C26_Witness ==
    /\ \E s \in StreamNames : dispatch.invoked = <<s>>
    /\ \A s \in StreamNames : message_handlers[s] /= NoHandler
    /\ \E c \in Conns : connections[c].reader = "running"

\* C27: after unsubscribe_from_stream(s), s has no handler, is no active
\* stream and is in no registered connection; a connection the call left
\* without streams is closed, and a connection that still carries streams is
\* left as it was.
C27_UnsubscribeRemovesAndCloses ==
    [][\A s \in StreamNames :
          Unsubscribe(s)
             => /\ message_handlers'[s] = NoHandler
                /\ s \notin active_streams'
                /\ \A c \in Conns :
                      connections[c].registered
                         => /\ s \notin connections'[c].streams
                            /\ (s \in connections[c].streams
                                  /\ connections'[c].streams = {})
                                  => /\ ~connections'[c].is_connected
                                     /\ connections'[c].websocket = "closed"
                            /\ connections'[c].streams /= {}
                                  => /\ connections'[c].is_connected
                                           = connections[c].is_connected
                                     /\ connections'[c].websocket
                                           = connections[c].websocket]_vars

C27_Witness ==
    \E c, d \in Conns :
       /\ connections[c].registered /\ connections[c].streams = {}
       /\ ~connections[c].is_connected /\ connections[c].websocket = "closed"
       /\ connections[d].registered /\ connections[d].streams /= {}
       /\ connections[d].is_connected /\ connections[d].websocket = "open"

\* the attempts recorded less than 300 s before time t
InWindow(attempts_at, t) ==
    SumOver([x \in WsTimes |-> IF t - x < ConnectionAttemptWindow
                               THEN attempts_at[x] ELSE 0], WsTimes)

\* C28: a new connection is refused when 300 attempts are recorded in the
\* trailing 300 s and allowed otherwise; every allowed attempt is recorded
\* before connecting, whether it then connects or fails; so never more than
\* 300 attempts lie in the trailing 300 s.
C28_ConnectionAttemptsLimited ==
    /\ [](InWindow(connection_attempts, ws_now) <= MaxConnectionAttempts)
    /\ [][\A connects \in BOOLEAN :
             CreateConnection(connects)
                => /\ created' = "rate_limit_exceeded"
                         <=> InWindow(connection_attempts, ws_now) >= MaxConnectionAttempts
                   /\ created' /= "rate_limit_exceeded"
                         => InWindow(connection_attempts', ws_now)
                               = InWindow(connection_attempts, ws_now) + 1]_vars

C28_Witness ==
    /\ created = "rate_limit_exceeded"
    /\ ws_now > 0
    /\ InWindow(connection_attempts, ws_now) = MaxConnectionAttempts

(***************************************************************************)
(* Claims about the adapter and about stream names.                        *)
(***************************************************************************)
\* the result text as the order manager's result alone determines it
text_of_result(action, slug, result) ==
    IF "raises" \in DOMAIN result
    THEN [kind |-> "Error executing", action |-> action, slug |-> slug,
          error |-> result.raises]
    ELSE IF result.success
    THEN [kind |-> "Executed", action |-> action, slug |-> slug,
          filled_quantity |-> result.filled_quantity,
          filled_price |-> result.filled_price]
    ELSE [kind |-> "Failed to execute", action |-> action, slug |-> slug,
          error |-> result.error_message]

\* C29: the result text of execute_buy_order / execute_sell_order depends
\* only on the order manager's result; the ledger write is attempted only
\* after a successful order, and a failing write neither changes the
\* message of a successful order nor raises to the caller.
C29_LedgerIsBestEffort ==
    (adapter.stage = "returned" /\ adapter.has_order_manager)
    => /\ adapter.returned.raises = "None"
       /\ adapter.returned.message
             = text_of_result(adapter.action, adapter.slug, adapter.result)
       /\ adapter.returned.ledger_calls = 1
             <=> ("success" \in DOMAIN adapter.result /\ adapter.result.success)

C29_Witness ==
    /\ adapter.stage = "returned"
    /\ adapter.has_order_manager
    /\ "success" \in DOMAIN adapter.result /\ adapter.result.success
    /\ adapter.ledger = "sqlite3.Error"
    /\ adapter.returned.message.kind = "Executed"
    /\ adapter.returned.rows = <<>>

\* C30: _format_stream_name lower-cases the symbol and gives <sym>@trade,
\* <sym>@kline_<i> (1m when no interval is given), <sym>@ticker,
\* <sym>@depth<n>@100ms for depth with levels n and no speed given, and
\* <sym>@bookTicker.
C30_StreamNamePerKind ==
    sname.stage = "formatted"
    => LET config == sname.config
           sym == lower(config.symbol)
       IN  /\ config.stream_type = "TRADE" => sname.name = <<sym, "@trade">>
           /\ config.stream_type = "KLINE"
                 => sname.name = <<sym, "@kline_",
                                   IF config.interval \in {"None", ""}
                                   THEN "1m" ELSE config.interval>>
           /\ config.stream_type = "TICKER" => sname.name = <<sym, "@ticker">>
           /\ (/\ config.stream_type = "DEPTH"
               /\ config.depth_levels \notin {NoDepthLevels, 0}
               /\ config.update_speed \in {"None", ""})
                 => sname.name = <<sym, "@depth", int_text(config.depth_levels),
                                   "@100ms">>
           /\ config.stream_type = "BOOK_TICKER" => sname.name = <<sym, "@bookTicker">>

C30_Witness ==
    /\ sname.stage = "formatted"
    /\ sname.config.symbol = "BTCUSDT"
    /\ sname.config.stream_type = "DEPTH"
    /\ sname.config.depth_levels = 20
    /\ sname.name = <<"btcusdt", "@depth", "20", "@100ms">>

(***************************************************************************)
(* Claims about the daily volume cap (SpecOMSeq, SpecOMDay) and about the  *)
(* steps of one place_order call (SpecOM).                                 *)
(***************************************************************************)

\* C31: after any sequence of place_order calls made one after the other,
\* whatever the prices do between the calls, the daily-volume accumulator is
\* at most the configured maximum daily volume.
C31_DailyVolumeWithinCap == daily_volume_usd <= max_daily_volume_usd

\* the daily-cap check of _check_risk_limits has passed for task k and its
\* result is not recorded yet
admitted(k) == om[k].pc \in {"await_test_order", "await_order", "await_fill_price"}

\* the notional the daily-cap check admitted
admitted_notional(k) == order_notional(om[k].request, om[k].current_price)

\* C32: two concurrent place_order calls are never both past the daily-cap
\* check with notionals that, added to the accumulator, exceed the cap.
C32_NoTwoAdmittedOverCap ==
    \A j, k \in Tasks :
       (j /= k /\ admitted(j) /\ admitted(k))
          => daily_volume_usd + admitted_notional(j) + admitted_notional(k)
                <= max_daily_volume_usd

\* task k leaves place_order in this step
Returns(k) ==
    om[k].pc \notin {"idle", "returned", "raised"} /\ om'[k].pc \in {"returned", "raised"}

\* C34: a place_order call that returns success for an order that is not a
\* dry run appends exactly one result to the order history and adds
\* filled_quantity x filled_price to the daily volume; a dry run or a failed
\* call appends nothing and never increases the daily volume; nothing else
\* changes the history or increases the daily volume.
C34_RecordedIffSuccessfulOrder ==
    [][/\ \A k \in Tasks :
             Returns(k)
                => LET res == om'[k].result
                   IN  IF res.success /\ ~om'[k].dry_run
                       THEN /\ order_history' =
                                  Append(order_history,
                                         [filled_quantity |-> res.filled_quantity,
                                          filled_price |-> res.filled_price])
                            /\ daily_volume_usd' =
                                  daily_volume_usd
                                     + res.filled_quantity * res.filled_price
                       ELSE /\ order_history' = order_history
                            /\ daily_volume_usd' <= daily_volume_usd
       /\ (order_history' /= order_history \/ daily_volume_usd' > daily_volume_usd)
             => \E k \in Tasks :
                   Returns(k) /\ om'[k].result.success /\ ~om'[k].dry_run]_vars

C34_Witness ==
    /\ om["a"].pc = "returned" /\ om["a"].result.success /\ ~om["a"].dry_run
    /\ om["a"].result.filled_quantity > 0
    /\ om["b"].pc = "returned" /\ om["b"].result.success /\ om["b"].dry_run
    /\ Len(order_history) = 1
    /\ daily_volume_usd = om["a"].result.filled_quantity * om["a"].result.filled_price

\* the order request of task k is sent in this step
Submits(k) == OrderRequestsSent(om[k]) = {} /\ OrderRequestsSent(om'[k]) /= {}

\* C35: within one place_order call the order request is sent only after
\* the validation and the risk check have passed, with the quantity and the
\* price as _format_quantity and _format_price give them, and the history
\* and the daily volume are updated only when the submission has returned.
C35_StepsInOrder ==
    /\ [](\A k \in Tasks :
             LET t == om[k]
                 r == t.request
             IN  OrderRequestsSent(t) /= {}
                    => /\ ~validation_fails(r)
                       /\ Priced(t) /\ ~SizeViolation(t)
                       /\ t.calls[1] = "get_symbol_price"
                       /\ \A i \in OrderRequestsSent(t) : i > 1
                       /\ t.submitted.quantity = _format_quantity(r.symbol, r.quantity)
                       /\ t.submitted.price =
                             IF r.price /= 0 THEN _format_price(r.symbol, r.price)
                             ELSE 0)
    /\ [][/\ \A k \in Tasks :
                Submits(k)
                   => risk_check_error(om[k].request, om'[k].current_price) = "none"
          /\ (order_history' /= order_history \/ daily_volume_usd' > daily_volume_usd)
                => \E k \in Tasks :
                      /\ OrderRequestsSent(om[k]) /= {}
                      /\ om[k].pc \in {"await_test_order", "await_order",
                                       "await_fill_price"}
                      /\ om'[k].pc = "returned"]_vars

C35_Witness ==
    \E k \in Tasks :
       /\ om[k].pc = "returned" /\ om[k].result.success /\ ~om[k].dry_run
       /\ om[k].request.order_type = "LIMIT"
       /\ om[k].submitted.quantity /= om[k].request.quantity
       /\ om[k].submitted.price /= om[k].request.price
       /\ om[k].submitted.quantity = om[k].result.filled_quantity
       /\ Len(order_history) = 1

\* the exchange accepts the order of task k in this step, or has accepted it
\* and the call ends in this step
AcceptedStep(k) ==
    \/ \E g \in BOOLEAN : TestOrderAccepted(k, g)
    \/ \E resp \in OrderResponses : OrderAccepted(k, resp)
    \/ om[k].pc = "await_fill_price" /\ om'[k].pc /= "await_fill_price"

\* C37: when the test-order or order endpoint call has returned normally,
\* place_order returns success = TRUE and records the order.
C37_AcceptedOrderSucceeds ==
    [][\A k \in Tasks :
          (AcceptedStep(k) /\ om'[k].pc \in {"returned", "raised"})
             => /\ om'[k].result.success
                /\ Len(order_history') = Len(order_history) + 1]_vars

\* C38: the quantity submitted for an order that passed the validation and
\* the risk check, i.e. the quantity after the round-down, is positive, lies
\* within [minQty, maxQty] of the symbol, and its notional at the price of
\* the risk check is still at least the configured minimum order size.
C38_NormalizedQuantityStillValid ==
    (fmt.op = "normalized" /\ fmt.rejected = "none")
       => LET rules == symbol_info[fmt.request.symbol]
          IN  /\ fmt.result > 0
              /\ fmt.result >= rules.minQty
              /\ fmt.result <= rules.maxQty
              /\ fmt.result * fmt.current_price >= min_order_size_usd

(***************************************************************************)
(* Claims about failed subscriptions and about a manager that is not       *)
(* running (SpecWS).                                                       *)
(***************************************************************************)

\* C39: a subscribe_to_stream call whose connection is not opened (connect
\* error or connection rate limit) leaves the handlers, the active streams
\* and the connections as they were.
C39_FailedSubscribeChangesNothing ==
    [][\A s \in StreamNames, h \in Handlers \cup {NoHandler} :
          ((\E connects \in BOOLEAN : Subscribe(s, h, connects))
              /\ created' /= "connected")
             => /\ message_handlers' = message_handlers
                /\ active_streams' = active_streams
                /\ connections' = connections]_vars

\* C40: a message read while the manager is not running is not dispatched,
\* ends the read loop and closes the socket; handlers are invoked only while
\* the manager is running; stop() leaves no connection, active stream or
\* handler registered.
C40_NoDispatchWhileNotRunning ==
    /\ [][\A c \in Conns, m \in Messages, r \in HandlerResults :
             (Message(c, m, r) /\ ~running)
                => /\ dispatch' = dispatch
                   /\ connections'[c].reader = "stopped"
                   /\ connections'[c].websocket = "closed"
                   /\ ~connections'[c].is_connected]_vars
    /\ [][dispatch' /= dispatch => running]_vars
    /\ [][Stop => /\ active_streams' = {}
                  /\ \A s \in StreamNames : message_handlers'[s] = NoHandler
                  /\ \A c \in Conns : ~connections'[c].registered
                  /\ \A c \in Conns :
                        connections[c].registered
                           => connections'[c].websocket = "closed"]_vars

C40_Witness ==
    /\ ~running
    /\ \E c, d \in Conns :
          /\ connections[c].reader = "stopped" /\ connections[c].registered
          /\ connections[c].websocket = "closed"
          /\ ~connections[d].registered /\ connections[d].websocket = "closed"
    /\ \E s \in StreamNames : message_handlers[s] /= NoHandler

(***************************************************************************)
(* Claim about signed requests, checked under SpecSign.                    *)
(***************************************************************************)
\* C36: for every signed request, the string the signature is computed over
\* equals the transmitted query string or form body without its last item,
\* the signature: same parameters and timestamp, same order, same encoding.
C36_SignedStringIsSentString ==
    (sec.stage = "constructed" /\ sec.sent /= NothingSent)
    => sec.signature.signed = sec.sent.text

(***************************************************************************)
(* Claim about the tasks of one event loop, checked under SpecLoop.        *)
(***************************************************************************)
\* C33: while one REST call waits inside acquire for capacity, the other
\* tasks of the client can go on: a REST call whose request was sent can take
\* its response, and a stream read loop can take its next message.
C33_WaitSuspendsOnlyCaller ==
    \A p \in Callers :
       pc[p] = "sleep"
          => /\ \A q \in Callers \ {p} : pc[q] = "granted" => ENABLED ResponseStep(q)
             /\ \A c \in Conns :
                   (connections[c].reader = "running" /\ connections[c].websocket = "open")
                      => ENABLED ReadLoopStep(c)
====
